---------------------------- MODULE Spec2Model ----------------------------
(***************************************************************************)
(* Elliott Wave engine (src/src/lib/elliottWaveEngine.js).                 *)
(*                                                                         *)
(* The engine is a set of exported pure functions.  Each function is an    *)
(* operator translated from its code; the state machine is a caller that   *)
(* builds an argument (a candle sequence, a pivot sequence, the arguments  *)
(* of projectWaves) and then calls one exported function, keeping what it  *)
(* returned.                                                               *)
(*                                                                         *)
(* Numbers.  Prices are JavaScript doubles in the source.  Here a price is *)
(* an integer number of price units, and every product with one of the     *)
(* decimal literals of the source (0.618, 1.618, 0.382, 0.236, 0.5, 0.9,   *)
(* 2.618, ...) is computed exactly, in millionths of a price unit or by    *)
(* cross-multiplication; Math.round is floor(x + 1/2).  Array positions    *)
(* are 0-based as in the source; Seq positions are 1-based, so a[i] of the *)
(* source is a[i + 1] here.                                                *)
(***************************************************************************)
EXTENDS Integers, Sequences, FiniteSets, TLC

VARIABLES
    candles,    \* the candle sequence the caller has built
    depth,      \* the depth argument of detectPivots
    pivots,     \* a pivot sequence: detectPivots' result, or an argument
    args,       \* the arguments of projectWaves
    pc,         \* "input", or the name of the function that was called
    result      \* what the called function returned

vars == <<candles, depth, pivots, args, pc, result>>

NoValue == [none |-> TRUE]

(***************************************************************************)
(* Bounds of the explored inputs.                                          *)
(***************************************************************************)
MaxDepth == 2
MaxCandles == 6

\* high and low of a candle are drawn from here (high >= low)
CandlePrices == {1, 2, 3}

Min(a, b) == IF a < b THEN a ELSE b
Max(a, b) == IF a > b THEN a ELSE b
Abs(a) == IF a < 0 THEN -a ELSE a

(***************************************************************************)
(* 1. Pivot detection (ZigZag)                                             *)
(***************************************************************************)

\* candles[i] of the source
At(s, i) == s[i + 1]

IsHighMutNonStrict(cs, i, d) ==
    \A j \in 1..d :
        /\ ~(At(cs, i).high < At(cs, i - j).high)
        /\ ~(At(cs, i).high < At(cs, i + j).high)

\* lines 31-38, the isHigh flag after the inner loop
IsHigh(cs, i, d) ==
    \A j \in 1..d :
        /\ ~(At(cs, i).high <= At(cs, i - j).high)
        /\ ~(At(cs, i).high <= At(cs, i + j).high)

\* lines 31-38, the isLow flag after the inner loop
IsLow(cs, i, d) ==
    \A j \in 1..d :
        /\ ~(At(cs, i).low >= At(cs, i - j).low)
        /\ ~(At(cs, i).low >= At(cs, i + j).low)

HighPivot(cs, i) ==
    [index |-> i, time |-> At(cs, i).time, price |-> At(cs, i).high, type |-> "high"]

LowPivot(cs, i) ==
    [index |-> i, time |-> At(cs, i).time, price |-> At(cs, i).low, type |-> "low"]

\* the highs list pushed by the loop of lines 30-41, from bar i on
RECURSIVE HighsFrom(_, _, _)
HighsFrom(cs, d, i) ==
    IF i >= Len(cs) - d THEN <<>>
    ELSE (IF IsHigh(cs, i, d) THEN <<HighPivot(cs, i)>> ELSE <<>>)
             \o HighsFrom(cs, d, i + 1)

\* the lows list pushed by the loop of lines 30-41, from bar i on
RECURSIVE LowsFrom(_, _, _)
LowsFrom(cs, d, i) ==
    IF i >= Len(cs) - d THEN <<>>
    ELSE (IF IsLow(cs, i, d) THEN <<LowPivot(cs, i)>> ELSE <<>>)
             \o LowsFrom(cs, d, i + 1)

\* x put into the index-sorted s behind every element whose index is not greater
RECURSIVE InsertByIndex(_, _)
InsertByIndex(s, x) ==
    IF s = <<>> THEN <<x>>
    ELSE IF s[Len(s)].index - x.index <= 0 THEN Append(s, x)
    ELSE Append(InsertByIndex(SubSeq(s, 1, Len(s) - 1), x), s[Len(s)])

\* Array.prototype.sort((a, b) => a.index - b.index): a stable sort
RECURSIVE SortByIndex(_)
SortByIndex(s) ==
    IF s = <<>> THEN <<>>
    ELSE InsertByIndex(SortByIndex(SubSeq(s, 1, Len(s) - 1)), s[Len(s)])

\* every bar with depth bars on both sides is flagged a high when its high is
\* above the depth bars before it, and a low when its low is below the depth
\* bars after it: the comparisons with the other side are missing
AllCandidatesMutOneSided(cs, d) ==
    LET bars == [k \in 1..(Len(cs) - 2 * d) |-> d + k - 1]
        hs == SelectSeq(bars, LAMBDA i : \A j \in 1..d : At(cs, i).high > At(cs, i - j).high)
        ls == SelectSeq(bars, LAMBDA i : \A j \in 1..d : At(cs, i).low < At(cs, i + j).low)
    IN  SortByIndex([k \in 1..Len(hs) |-> HighPivot(cs, hs[k])]
                        \o [k \in 1..Len(ls) |-> LowPivot(cs, ls[k])])

\* line 44: const all = [...highs, ...lows].sort(...)
AllCandidates(cs, d) == SortByIndex(HighsFrom(cs, d, d) \o LowsFrom(cs, d, d))

ReplaceLast(ps, c) == [ps EXCEPT ![Len(ps)] = c]

MergeStepMutPush(ps, c) == Append(ps, c)

MergeStepMutLatest(ps, c) ==
    LET last == ps[Len(ps)] IN
    IF c.type = last.type
    THEN IF c.type = "high" /\ c.price >= last.price THEN ReplaceLast(ps, c)
         ELSE IF c.type = "low" /\ c.price <= last.price THEN ReplaceLast(ps, c)
         ELSE ps
    ELSE Append(ps, c)

\* lines 51-61: one iteration of the alternation loop
MergeStep(ps, c) ==
    LET last == ps[Len(ps)] IN
    IF c.type = last.type
    THEN IF c.type = "high" /\ c.price > last.price THEN ReplaceLast(ps, c)
         ELSE IF c.type = "low" /\ c.price < last.price THEN ReplaceLast(ps, c)
         ELSE ps
    ELSE Append(ps, c)

\* lines 50-62: the loop from all[i] on
RECURSIVE MergeFrom(_, _, _)
MergeFrom(ps, all, i) ==
    IF i >= Len(all) THEN ps
    ELSE MergeFrom(MergeStep(ps, At(all, i)), all, i + 1)

\* lines 47-64
EnforceAlternation(all) ==
    IF Len(all) = 0 THEN <<>> ELSE MergeFrom(<<At(all, 0)>>, all, 1)

\* detectPivots(candles, depth)
DetectPivots(cs, d) ==
    IF Len(cs) < d * 2 + 1 THEN <<>>
    ELSE EnforceAlternation(AllCandidates(cs, d))

(***************************************************************************)
(* The caller of detectPivots: any candle sequence, any depth.             *)
(***************************************************************************)
Candle(t, h, l, c) == [time |-> t, high |-> h, low |-> l, close |-> c]

InitPivots ==
    /\ candles = <<>>
    /\ depth \in 1..MaxDepth
    /\ pivots = <<>>
    /\ args = NoValue
    /\ pc = "input"
    /\ result = NoValue

AddCandle ==
    /\ pc = "input"
    /\ Len(candles) < MaxCandles
    /\ \E h \in CandlePrices, l \in CandlePrices :
        /\ h >= l
        /\ candles' = Append(candles, Candle(Len(candles), h, l, l))
    /\ UNCHANGED <<depth, pivots, args, pc, result>>

CallDetectPivots ==
    /\ pc = "input"
    /\ pivots' = DetectPivots(candles, depth)
    /\ pc' = "detectPivots"
    /\ UNCHANGED <<candles, depth, args, result>>

NextPivots == AddCandle \/ CallDetectPivots

SpecPivots == InitPivots /\ [][NextPivots]_vars

(***************************************************************************)
(* Claims about detectPivots (checked under SpecPivots).                   *)
(***************************************************************************)

\* C1: for every candle sequence and every depth >= 1, the sequence that
\* detectPivots returns is strictly alternating: no two adjacent pivots have
\* the same type.
C1_StrictAlternation ==
    pc = "detectPivots" =>
        \A k \in 1..(Len(pivots) - 1) : pivots[k].type # pivots[k + 1].type

\* C1 witness: a call that returned at least three pivots after the merge
\* step dropped or replaced a same-type candidate.
C1_Witness ==
    /\ pc = "detectPivots"
    /\ Len(pivots) >= 3
    /\ Len(AllCandidates(candles, depth)) > Len(pivots)

\* C8: every returned pivot is a confirmed swing: depth <= index <
\* len(candles) - depth; a 'high' pivot's bar has a high strictly greater than
\* the high of each of the depth bars on either side and price is that high
\* (symmetrically, strictly less, for 'low'); so the result is empty when
\* len(candles) < 2*depth + 1.
C8_ConfirmedSwing ==
    pc = "detectPivots" =>
        /\ \A k \in 1..Len(pivots) :
            LET p == pivots[k]
                i == p.index
            IN  /\ depth <= i
                /\ i < Len(candles) - depth
                /\ p.type \in {"high", "low"}
                /\ p.type = "high" =>
                      /\ p.price = candles[i + 1].high
                      /\ \A j \in 1..depth :
                            /\ candles[i + 1].high > candles[i + 1 - j].high
                            /\ candles[i + 1].high > candles[i + 1 + j].high
                /\ p.type = "low" =>
                      /\ p.price = candles[i + 1].low
                      /\ \A j \in 1..depth :
                            /\ candles[i + 1].low < candles[i + 1 - j].low
                            /\ candles[i + 1].low < candles[i + 1 + j].low
        /\ Len(candles) < 2 * depth + 1 => pivots = <<>>

\* C8 witness: a call that returned both a swing high and a swing low.
C8_Witness ==
    /\ pc = "detectPivots"
    /\ \E k \in 1..Len(pivots) : pivots[k].type = "high"
    /\ \E k \in 1..Len(pivots) : pivots[k].type = "low"

\* position i starts a maximal run of same-type candidates
RunStart(all, i) == i = 1 \/ all[i].type # all[i - 1].type

\* the last position of the run that starts at a
RunEnd(all, a) ==
    CHOOSE b \in a..Len(all) :
        /\ \A m \in (a + 1)..b : ~RunStart(all, m)
        /\ b = Len(all) \/ RunStart(all, b + 1)

\* the start of the k-th run
RunStartOf(all, k) ==
    CHOOSE a \in 1..Len(all) :
        /\ RunStart(all, a)
        /\ Cardinality({m \in 1..a : RunStart(all, m)}) = k

MoreExtreme(type, a, b) == IF type = "high" THEN a > b ELSE a < b

\* C9: the merge step keeps exactly one pivot per maximal run of consecutive
\* same-type candidates (candidates sorted by index, a high before a low at an
\* equal index); the kept pivot is the most extreme candidate of its run, the
\* earliest one on ties; the first candidate's run gives the first pivot.
C9_MostExtremePerRun ==
    pc = "detectPivots" =>
        LET all == AllCandidates(candles, depth)
            runs == {a \in 1..Len(all) : RunStart(all, a)}
        IN  /\ \A i \in 1..Len(all), j \in 1..Len(all) :
                i < j => /\ all[i].index <= all[j].index
                         /\ all[i].index = all[j].index =>
                                all[i].type = "high" /\ all[j].type = "low"
            /\ Len(pivots) = Cardinality(runs)
            /\ \A k \in 1..Len(pivots) :
                LET a == RunStartOf(all, k)
                    b == RunEnd(all, a)
                    p == pivots[k]
                IN  \E j \in a..b :
                        /\ p = all[j]
                        /\ \A m \in a..b : ~MoreExtreme(p.type, all[m].price, p.price)
                        /\ \A m \in a..(j - 1) : all[m].price # p.price

\* C9 witness: a run of two same-type candidates with equal prices (a tie)
\* and another run whose later, more extreme candidate replaced the first.
C9_Witness ==
    /\ pc = "detectPivots"
    /\ LET all == AllCandidates(candles, depth) IN
        \E j \in 2..Len(all) :
            /\ all[j].type = all[j - 1].type
            /\ \/ all[j].price = all[j - 1].price
               \/ \E k \in 1..Len(pivots) : pivots[k] = all[j]

(***************************************************************************)
(* 2. Trend detection                                                      *)
(***************************************************************************)

DetermineTrendMutNonStrict(ps) ==
    IF Len(ps) < 2 THEN TRUE
    ELSE At(ps, Len(ps) - 1).price >= At(ps, Max(0, Len(ps) - 7)).price

\* determineTrend(pivots)
DetermineTrend(ps) ==
    IF Len(ps) < 2 THEN TRUE
    ELSE LET sz == Len(ps)
             startIdx == Max(0, sz - 7)
         IN  At(ps, sz - 1).price > At(ps, startIdx).price

(***************************************************************************)
(* 4. Confidence scoring.  A ratio test  lo <= a / b <= hi  with b > 0 is  *)
(* the cross-multiplied  lo*b <= a*1000 <= hi*b  with lo, hi in            *)
(* thousandths.                                                            *)
(***************************************************************************)

\* lo/1000 <= a / b <= hi/1000, for b > 0
RatioIn(a, b, lo, hi) == a * 1000 >= lo * b /\ a * 1000 <= hi * b

RuleWave3NotShortestMutStrict(l1, l3, l4) == IF l3 > l1 /\ l3 > l4 THEN 30 ELSE 0

\* Rule 1, line 196
RuleWave3NotShortest(l1, l3, l4) == IF l3 >= l1 /\ l3 >= l4 THEN 30 ELSE 0

\* Rule 2, lines 199-203
RuleWave2Retrace(l1, l2) ==
    IF l1 > 0
    THEN IF RatioIn(l2, l1, 382, 786) THEN 25
         ELSE IF RatioIn(l2, l1, 236, 886) THEN 12
         ELSE 0
    ELSE 0

RuleWave3ExtendMutNoElse(l1, l3) ==
    IF l1 > 0
    THEN (IF RatioIn(l3, l1, 1272, 2618) THEN 25 ELSE 0)
             + (IF RatioIn(l3, l1, 1000, 3000) THEN 12 ELSE 0)
    ELSE 0

\* Rule 3, lines 206-210
RuleWave3Extend(l1, l3) ==
    IF l1 > 0
    THEN IF RatioIn(l3, l1, 1272, 2618) THEN 25
         ELSE IF RatioIn(l3, l1, 1000, 3000) THEN 12
         ELSE 0
    ELSE 0

\* Rule 4, lines 213-217
RuleWave4Retrace(l3, l4) ==
    IF l3 > 0
    THEN IF RatioIn(l4, l3, 236, 500) THEN 20
         ELSE IF RatioIn(l4, l3, 146, 618) THEN 10
         ELSE 0
    ELSE 0

EwConfidenceMutFirstFive(ps) ==
    LET sz == Len(ps) IN
    IF sz < 5 THEN 0
    ELSE LET l1 == Abs(At(ps, 0).price - At(ps, 1).price)
             l2 == Abs(At(ps, 1).price - At(ps, 2).price)
             l3 == Abs(At(ps, 2).price - At(ps, 3).price)
             l4 == Abs(At(ps, 3).price - At(ps, 4).price)
         IN  0 + RuleWave3NotShortest(l1, l3, l4) + RuleWave2Retrace(l1, l2)
               + RuleWave3Extend(l1, l3) + RuleWave4Retrace(l3, l4)

\* ewConfidence(pivots)
EwConfidence(ps) ==
    LET sz == Len(ps) IN
    IF sz < 5 THEN 0
    ELSE LET l1 == Abs(At(ps, sz - 5).price - At(ps, sz - 4).price)
             l2 == Abs(At(ps, sz - 4).price - At(ps, sz - 3).price)
             l3 == Abs(At(ps, sz - 3).price - At(ps, sz - 2).price)
             l4 == Abs(At(ps, sz - 2).price - At(ps, sz - 1).price)
         IN  0 + RuleWave3NotShortest(l1, l3, l4) + RuleWave2Retrace(l1, l2)
               + RuleWave3Extend(l1, l3) + RuleWave4Retrace(l3, l4)

(***************************************************************************)
(* The caller of the functions that take a pivot sequence.  The sequence   *)
(* is drawn when the caller starts: its last RecentPivots pivots have any  *)
(* price of RecentPrices, the older ones any price of OlderPrices; types   *)
(* alternate and the bar index grows, as in a result of detectPivots.      *)
(***************************************************************************)
MaxPivots == 8
RecentPivots == 5
RecentPrices == 0..5
OlderPrices == {1, 4}

PivotAt(k, price) ==
    [index |-> 2 * k, time |-> 2 * k, price |-> price,
     type |-> IF k % 2 = 0 THEN "low" ELSE "high"]

\* how many of n pivots are older than the last RecentPivots
OlderCount(n) == IF n > RecentPivots THEN n - RecentPivots ELSE 0

\* the pivot sequence with the older prices o followed by the recent prices r
PivotSeq(o, r) ==
    [k \in 1..(Len(o) + Len(r)) |->
        PivotAt(k, IF k <= Len(o) THEN o[k] ELSE r[k - Len(o)])]

InitPivotOps ==
    /\ candles = <<>>
    /\ depth = 5
    /\ \E n \in 0..MaxPivots :
        \E o \in [1..OlderCount(n) -> OlderPrices],
           r \in [1..(n - OlderCount(n)) -> RecentPrices] :
            pivots = PivotSeq(o, r)
    /\ args = NoValue
    /\ pc = "input"
    /\ result = NoValue

CallDetermineTrend ==
    /\ pc = "input"
    /\ result' = DetermineTrend(pivots)
    /\ pc' = "determineTrend"
    /\ UNCHANGED <<candles, depth, pivots, args>>

CallEwConfidence ==
    /\ pc = "input"
    /\ result' = EwConfidence(pivots)
    /\ pc' = "ewConfidence"
    /\ UNCHANGED <<candles, depth, pivots, args>>

NextPivotOps == CallDetermineTrend \/ CallEwConfidence

SpecPivotOps == InitPivotOps /\ [][NextPivotOps]_vars

(***************************************************************************)
(* Claims about ewConfidence and determineTrend (under SpecPivotOps).      *)
(***************************************************************************)

\* C2: for every pivot sequence ewConfidence returns an integer in [0,100],
\* and exactly 0 whenever the sequence has fewer than 5 pivots.
C2_ConfidenceRange ==
    pc = "ewConfidence" =>
        /\ result \in 0..100
        /\ Len(pivots) < 5 => result = 0

\* C2 witness: a call on at least 5 pivots that scored every rule in full.
C2_Witness ==
    /\ pc = "ewConfidence"
    /\ Len(pivots) >= 5
    /\ result = 100

\* C10: determineTrend returns true for fewer than 2 pivots; otherwise true
\* iff the last pivot's price is strictly greater than the price of the pivot
\* at index max(0, len-7) (equal prices give bearish).
C10_Trend ==
    pc = "determineTrend" =>
        LET n == Len(pivots) IN
        /\ n < 2 => result = TRUE
        /\ n >= 2 =>
              LET ref == IF n - 7 > 0 THEN n - 7 ELSE 0 IN
              result = (pivots[n].price > pivots[ref + 1].price)

\* C10 witness: at least 8 pivots, the last price equal to the price at
\* index len-7 (so bearish) although it is above the first pivot's price.
C10_Witness ==
    /\ pc = "determineTrend"
    /\ Len(pivots) >= 8
    /\ result = FALSE
    /\ pivots[Len(pivots)].price = pivots[Len(pivots) - 6].price
    /\ pivots[Len(pivots)].price > pivots[1].price

(***************************************************************************)
(* 3. Structural wave detection                                            *)
(***************************************************************************)

RECURSIVE ScanMaxMutLast(_, _, _, _, _)
ScanMaxMutLast(ps, i, to, val, idx) ==
    IF i >= to THEN idx
    ELSE IF At(ps, i).price >= val
         THEN ScanMaxMutLast(ps, i + 1, to, At(ps, i).price, i)
         ELSE ScanMaxMutLast(ps, i + 1, to, val, idx)

\* for (i = from; i < to; i++) if (pivots[i].price > val) { val = ...; idx = i }
RECURSIVE ScanMax(_, _, _, _, _)
ScanMax(ps, i, to, val, idx) ==
    IF i >= to THEN idx
    ELSE IF At(ps, i).price > val
         THEN ScanMax(ps, i + 1, to, At(ps, i).price, i)
         ELSE ScanMax(ps, i + 1, to, val, idx)

\* for (i = from; i < to; i++) if (pivots[i].price < val) { val = ...; idx = i }
RECURSIVE ScanMin(_, _, _, _, _)
ScanMin(ps, i, to, val, idx) ==
    IF i >= to THEN idx
    ELSE IF At(ps, i).price < val
         THEN ScanMin(ps, i + 1, to, At(ps, i).price, i)
         ELSE ScanMin(ps, i + 1, to, val, idx)

RECURSIVE ScanW1BullMutNoBreak(_, _, _, _, _)
ScanW1BullMutNoBreak(ps, i, w3I, localMax, w1I) ==
    IF i >= w3I THEN w1I
    ELSE LET p == At(ps, i).price
             newMax == IF p > localMax THEN p ELSE localMax
             newW1 == IF p > localMax THEN i ELSE w1I
         IN  ScanW1BullMutNoBreak(ps, i + 1, w3I, newMax, newW1)

\* lines 116-119: the W1 scan of the bullish branch, with its break at
\* price < localMax * 0.9
RECURSIVE ScanW1Bull(_, _, _, _, _)
ScanW1Bull(ps, i, w3I, localMax, w1I) ==
    IF i >= w3I THEN w1I
    ELSE LET p == At(ps, i).price
             newMax == IF p > localMax THEN p ELSE localMax
             newW1 == IF p > localMax THEN i ELSE w1I
         IN  IF p * 10 < newMax * 9 THEN newW1
             ELSE ScanW1Bull(ps, i + 1, w3I, newMax, newW1)

\* lines 153-156: the W1 scan of the bearish branch, with its break at
\* price > localMin * 1.1
RECURSIVE ScanW1Bear(_, _, _, _, _)
ScanW1Bear(ps, i, w3I, localMin, w1I) ==
    IF i >= w3I THEN w1I
    ELSE LET p == At(ps, i).price
             newMin == IF p < localMin THEN p ELSE localMin
             newW1 == IF p < localMin THEN i ELSE w1I
         IN  IF p * 10 > newMin * 11 THEN newW1
             ELSE ScanW1Bear(ps, i + 1, w3I, newMin, newW1)

Anchors(o, a, b, c, d) == [origin |-> o, w1 |-> a, w2 |-> b, w3 |-> c, w4 |-> d]

StructuralBullMutOriginAnywhere(ps, recentStart) ==
    LET sz == Len(ps)
        w3I == ScanMax(ps, recentStart, sz, At(ps, recentStart).price, recentStart)
        oIdx == ScanMin(ps, recentStart, sz, At(ps, recentStart).price, recentStart)
        w1I == IF w3I > oIdx + 2
               THEN ScanW1Bull(ps, oIdx + 1, w3I, At(ps, oIdx + 1).price, Min(oIdx + 1, w3I))
               ELSE Min(oIdx + 1, w3I)
        w2I == IF w3I > w1I + 1
               THEN ScanMin(ps, w1I, w3I, At(ps, w1I).price, w1I)
               ELSE w1I
        w4I == IF w3I < sz - 1
               THEN ScanMin(ps, w3I + 1, sz, At(ps, w3I + 1).price, w3I + 1)
               ELSE w3I
    IN  Anchors(oIdx, w1I, w2I, w3I, w4I)

StructuralBullMutW2AfterW1(ps, recentStart) ==
    LET sz == Len(ps)
        w3I == ScanMax(ps, recentStart, sz, At(ps, recentStart).price, recentStart)
        oIdx == ScanMin(ps, recentStart, w3I + 1, At(ps, recentStart).price, recentStart)
        w1I == IF w3I > oIdx + 2
               THEN ScanW1Bull(ps, oIdx + 1, w3I, At(ps, oIdx + 1).price, Min(oIdx + 1, w3I))
               ELSE Min(oIdx + 1, w3I)
        w2I == IF w3I > w1I + 1
               THEN ScanMin(ps, w1I + 1, w3I, At(ps, w1I + 1).price, w1I + 1)
               ELSE w1I
        w4I == IF w3I < sz - 1
               THEN ScanMin(ps, w3I + 1, sz, At(ps, w3I + 1).price, w3I + 1)
               ELSE w3I
    IN  Anchors(oIdx, w1I, w2I, w3I, w4I)

\* lines 99-137
StructuralBull(ps, recentStart) ==
    LET sz == Len(ps)
        w3I == ScanMax(ps, recentStart, sz, At(ps, recentStart).price, recentStart)
        oIdx == ScanMin(ps, recentStart, w3I + 1, At(ps, recentStart).price, recentStart)
        w1I == IF w3I > oIdx + 2
               THEN ScanW1Bull(ps, oIdx + 1, w3I, At(ps, oIdx + 1).price, Min(oIdx + 1, w3I))
               ELSE Min(oIdx + 1, w3I)
        w2I == IF w3I > w1I + 1
               THEN ScanMin(ps, w1I, w3I, At(ps, w1I).price, w1I)
               ELSE w1I
        w4I == IF w3I < sz - 1
               THEN ScanMin(ps, w3I + 1, sz, At(ps, w3I + 1).price, w3I + 1)
               ELSE w3I
    IN  Anchors(oIdx, w1I, w2I, w3I, w4I)

StructuralBearMutMirror(ps, recentStart) ==
    LET sz == Len(ps)
        w3I == ScanMin(ps, recentStart, sz, At(ps, recentStart).price, recentStart)
        oIdx == ScanMax(ps, recentStart, w3I + 1, At(ps, recentStart).price, recentStart)
        w1I == IF w3I > oIdx + 2
               THEN ScanW1Bear(ps, oIdx + 1, w3I, At(ps, oIdx + 1).price, Min(oIdx + 1, w3I))
               ELSE Min(oIdx + 1, w3I)
        w2I == IF w3I > w1I + 1
               THEN ScanMax(ps, w1I, w3I, At(ps, w1I).price, w1I)
               ELSE w1I
        w4I == IF w3I < sz - 1
               THEN ScanMax(ps, w3I + 1, sz, At(ps, w3I + 1).price, w3I + 1)
               ELSE w3I
    IN  Anchors(oIdx, w1I, w2I, w3I, w4I)

\* lines 138-173
StructuralBear(ps, recentStart) ==
    LET sz == Len(ps)
        oIdx == ScanMax(ps, recentStart, sz, At(ps, recentStart).price, recentStart)
        w3I == ScanMin(ps, oIdx, sz, At(ps, oIdx).price, oIdx)
        w1I == IF w3I > oIdx + 2
               THEN ScanW1Bear(ps, oIdx + 1, w3I, At(ps, oIdx + 1).price, Min(oIdx + 1, w3I))
               ELSE Min(oIdx + 1, w3I)
        w2I == IF w3I > w1I + 1
               THEN ScanMax(ps, w1I, w3I, At(ps, w1I).price, w1I)
               ELSE w1I
        w4I == IF w3I < sz - 1
               THEN ScanMax(ps, w3I + 1, sz, At(ps, w3I + 1).price, w3I + 1)
               ELSE w3I
    IN  Anchors(oIdx, w1I, w2I, w3I, w4I)

FindStructuralWavesMutWholeArray(ps, isBull) ==
    LET sz == Len(ps)
        recentStart == Max(0, sz - 20)
    IN  IF sz < 3
        THEN Anchors(recentStart, recentStart, recentStart, recentStart, recentStart)
        ELSE IF isBull THEN StructuralBull(ps, 0)
             ELSE StructuralBear(ps, 0)

\* findStructuralWaves(pivots, isBull)
FindStructuralWaves(ps, isBull) ==
    LET sz == Len(ps)
        recentStart == Max(0, sz - 20)
    IN  IF sz < 3
        THEN Anchors(recentStart, recentStart, recentStart, recentStart, recentStart)
        ELSE IF isBull THEN StructuralBull(ps, recentStart)
             ELSE StructuralBear(ps, recentStart)

(***************************************************************************)
(* 5. Current wave determination                                           *)
(***************************************************************************)
WAVE_NAMES ==
    <<"Wave 1", "Wave 2A", "Wave 2B", "Wave 2C", "Wave 3",
      "Wave 4A", "Wave 4B", "Wave 4C", "Wave 5">>

WAVE_LABELS == <<"(1)", "A", "B", "(2)", "(3)", "A", "B", "(4)", "(5)">>

DetermineCurrentWaveMutStrict(ps, structural) ==
    LET lastPivIdx == Len(ps) - 1
        simI == IF lastPivIdx < structural.w1 THEN 0
                ELSE IF lastPivIdx < structural.w2 THEN 3
                ELSE IF lastPivIdx < structural.w3 THEN 4
                ELSE IF lastPivIdx < structural.w4 THEN 7
                ELSE 8
    IN  [simI |-> simI, name |-> At(WAVE_NAMES, simI), label |-> At(WAVE_LABELS, simI)]

\* determineCurrentWave(pivots, structural)
DetermineCurrentWave(ps, structural) ==
    LET lastPivIdx == Len(ps) - 1
        simI == IF lastPivIdx <= structural.w1 THEN 0
                ELSE IF lastPivIdx <= structural.w2 THEN 3
                ELSE IF lastPivIdx <= structural.w3 THEN 4
                ELSE IF lastPivIdx <= structural.w4 THEN 7
                ELSE 8
    IN  [simI |-> simI, name |-> At(WAVE_NAMES, simI), label |-> At(WAVE_LABELS, simI)]

(***************************************************************************)
(* 6. Wave projection                                                      *)
(*                                                                         *)
(* The w1Len argument is the record [num, per] standing for the number     *)
(* num * 1000 / per: per = 1000 is the integer num, per = 1618 is          *)
(* num / 1.618 (the rescaled length of analyzeElliottWaves).  Every price  *)
(* inside projectWaves is kept as an integer numerator over the            *)
(* denominator Den(w1Len) = 1000 * per, in which w1Len itself is           *)
(* num * 1000000 and all products with the three-decimal literals are      *)
(* exact.  A returned target is in cents (target * 100) and a returned     *)
(* pctChange in hundredths of a percent (pctChange * 100): the integers    *)
(* that Math.round(x * 100) produces before the final / 100.               *)
(***************************************************************************)
Million == 1000000

W1Len(num, per) == [num |-> num, per |-> per]

Den(w1Len) == 1000 * w1Len.per

\* x * (m / 1000) for a three-decimal literal m / 1000; x is a multiple of 1000
Times(x, m) == (x \div 1000) * m

\* lines 264-268
Legs(w1Len) ==
    LET len1 == w1Len.num * Million
        len2 == Times(len1, 618)
        len3 == Times(len1, 1618)
        len4 == Times(len3, 382)
        len5 == len1
    IN  [len1 |-> len1, len2 |-> len2, len3 |-> len3, len4 |-> len4, len5 |-> len5]

\* lines 270-273
Cycle0Net(L, isBull) ==
    LET dir0 == IF isBull THEN 1 ELSE -1
    IN  dir0 * L.len1 - dir0 * L.len2 + dir0 * L.len3 - dir0 * L.len4 + dir0 * L.len5

ActiveDirMutNoFlip(cycleNum, isBull) == IF isBull THEN 1 ELSE -1

\* lines 282-283
ActiveDir(cycleNum, isBull) ==
    LET cycleSign == IF cycleNum % 2 = 0 THEN 1 ELSE -1
    IN  (IF isBull THEN 1 ELSE -1) * cycleSign

PriorCyclesMoveMutLate(cycleNum, cycle0Net) ==
    IF cycleNum >= 2 THEN (IF cycleNum % 2 = 1 THEN cycle0Net ELSE 0)
    ELSE 0

PriorCyclesMoveMutAccumulate(cycleNum, cycle0Net) == ((cycleNum + 1) \div 2) * cycle0Net

\* lines 285-287
PriorCyclesMove(cycleNum, cycle0Net) ==
    IF cycleNum = 1 THEN cycle0Net
    ELSE IF cycleNum >= 2 THEN (IF cycleNum % 2 = 1 THEN cycle0Net ELSE 0)
    ELSE 0

CycleTargetsMutOvershoot(L, activeDir) ==
    LET cw1 == activeDir * L.len1
        cw2 == cw1 - activeDir * L.len2
        cw3 == cw2 + activeDir * L.len3
        cw4 == cw3 - activeDir * L.len4
        cw5 == cw4 + activeDir * L.len5
        cw2a == cw1 - activeDir * Times(L.len1, 382)
        cw2b == cw2a + activeDir * Times(Abs(cw1 - cw2a), 1500)
        cw4a == cw3 - activeDir * Times(L.len3, 236)
        cw4b == cw4a + activeDir * Times(Abs(cw3 - cw4a), 500)
    IN  [cw1 |-> cw1, cw2 |-> cw2, cw3 |-> cw3, cw4 |-> cw4, cw5 |-> cw5,
         cw2a |-> cw2a, cw2b |-> cw2b, cw2c |-> cw2,
         cw4a |-> cw4a, cw4b |-> cw4b, cw4c |-> cw4]

\* lines 289-301
CycleTargets(L, activeDir) ==
    LET cw1 == activeDir * L.len1
        cw2 == cw1 - activeDir * L.len2
        cw3 == cw2 + activeDir * L.len3
        cw4 == cw3 - activeDir * L.len4
        cw5 == cw4 + activeDir * L.len5
        cw2a == cw1 - activeDir * Times(L.len1, 382)
        cw2b == cw2a + activeDir * Times(Abs(cw1 - cw2a), 500)
        cw4a == cw3 - activeDir * Times(L.len3, 236)
        cw4b == cw4a + activeDir * Times(Abs(cw3 - cw4a), 500)
    IN  [cw1 |-> cw1, cw2 |-> cw2, cw3 |-> cw3, cw4 |-> cw4, cw5 |-> cw5,
         cw2a |-> cw2a, cw2b |-> cw2b, cw2c |-> cw2,
         cw4a |-> cw4a, cw4b |-> cw4b, cw4c |-> cw4]

Row(relTp, wn, wl, wf, isMajor) ==
    [relTp |-> relTp, wn |-> wn, wl |-> wl, wf |-> wf, isMajor |-> isMajor]

CorrectiveRowMutNamed(currIdx, cw) ==
    CASE currIdx = 0 -> Row(cw.cw1, "WAVE A", "A", "1.000", TRUE)
      [] currIdx = 1 -> Row(cw.cw2a, "Wave Ba", "Ba", "0.382", FALSE)
      [] currIdx = 2 -> Row(cw.cw2b, "", "", "", FALSE)
      [] currIdx = 3 -> Row(cw.cw2c, "WAVE B", "B", "0.618", TRUE)
      [] currIdx = 4 -> Row(cw.cw3, "WAVE C", "C", "1.618", TRUE)
      [] currIdx = 5 -> Row(cw.cw4a, "", "", "", FALSE)
      [] currIdx = 6 -> Row(cw.cw4b, "", "", "", FALSE)
      [] currIdx = 7 -> Row(cw.cw4c, "WAVE X", "X", "0.382", TRUE)
      [] currIdx = 8 -> Row(cw.cw5, "WAVE Y", "Y", "1.000", TRUE)

\* lines 309-319: the corrective cycle's switch
CorrectiveRow(currIdx, cw) ==
    CASE currIdx = 0 -> Row(cw.cw1, "WAVE A", "A", "1.000", TRUE)
      [] currIdx = 1 -> Row(cw.cw2a, "", "", "", FALSE)
      [] currIdx = 2 -> Row(cw.cw2b, "", "", "", FALSE)
      [] currIdx = 3 -> Row(cw.cw2c, "WAVE B", "B", "0.618", TRUE)
      [] currIdx = 4 -> Row(cw.cw3, "WAVE C", "C", "1.618", TRUE)
      [] currIdx = 5 -> Row(cw.cw4a, "", "", "", FALSE)
      [] currIdx = 6 -> Row(cw.cw4b, "", "", "", FALSE)
      [] currIdx = 7 -> Row(cw.cw4c, "WAVE X", "X", "0.382", TRUE)
      [] currIdx = 8 -> Row(cw.cw5, "WAVE Y", "Y", "1.000", TRUE)

\* lines 322-332: the motive cycle's switch
MotiveRow(currIdx, cw) ==
    CASE currIdx = 0 -> Row(cw.cw1, "WAVE 1", "1", "1.000", TRUE)
      [] currIdx = 1 -> Row(cw.cw2a, "Wave 2a", "2a", "0.382", FALSE)
      [] currIdx = 2 -> Row(cw.cw2b, "Wave 2b", "2b", "0.500", FALSE)
      [] currIdx = 3 -> Row(cw.cw2c, "WAVE 2", "2", "0.618", TRUE)
      [] currIdx = 4 -> Row(cw.cw3, "WAVE 3", "3", "1.618", TRUE)
      [] currIdx = 5 -> Row(cw.cw4a, "Wave 4a", "4a", "0.236", FALSE)
      [] currIdx = 6 -> Row(cw.cw4b, "Wave 4b", "4b", "0.500", FALSE)
      [] currIdx = 7 -> Row(cw.cw4c, "WAVE 4", "4", "0.382", TRUE)
      [] currIdx = 8 -> Row(cw.cw5, "WAVE 5", "5", "1.000", TRUE)

\* lines 307-333
TableRow(cycleNum, currIdx, cw) ==
    IF cycleNum % 2 = 1 THEN CorrectiveRow(currIdx, cw) ELSE MotiveRow(currIdx, cw)

ClampTargetMutNone(x, den) == x

\* line 335: Math.max(0.01, x), x a numerator over den
ClampTarget(x, den) == Max(den \div 100, x)

\* line 344: Math.round(target * 100), target a numerator over den
RoundCents(x, den) == (x + den \div 200) \div (den \div 100)

\* floor(r * 10^k / c) for 0 <= r < c, one decimal digit at a time
RECURSIVE FractionDigits(_, _, _)
FractionDigits(r, c, k) ==
    IF k = 0 THEN 0
    ELSE LET x == r * 10
         IN  (x \div c) * (10 ^ (k - 1)) + FractionDigits(x % c, c, k - 1)

\* lines 336 and 345: Math.round(((target - currentPrice) / currentPrice) * 100 * 100)
\* for currentPrice > 0; Math.round(x) is floor((floor(2x) + 1) / 2)
RoundPct(target, current) ==
    LET a == 2 * (target - current)
        twice == (a \div current) * 10000 + FractionDigits(a % current, current, 4)
    IN  (twice + 1) \div 2

\* lines 277-349: the body of the loop for step s; <<>> when nothing is pushed
ProjectStep(originPrice, w1Len, simI, isBull, currentPrice, s) ==
    LET den == Den(w1Len)
        L == Legs(w1Len)
        cycle0Net == Cycle0Net(L, isBull)
        effAbsIdx == simI + s
        cycleNum == effAbsIdx \div 9
        currIdx == effAbsIdx % 9
        priorCyclesMove == PriorCyclesMove(cycleNum, cycle0Net)
        row == TableRow(cycleNum, currIdx, CycleTargets(L, ActiveDir(cycleNum, isBull)))
        target == ClampTarget(originPrice * den + priorCyclesMove + row.relTp, den)
        pctChange == IF currentPrice # 0 THEN RoundPct(target, currentPrice * den) ELSE 0
    IN  IF row.wn # ""
        THEN << [step |-> s, wave |-> row.wn, label |-> row.wl, fibRatio |-> row.wf,
                 target |-> RoundCents(target, den), pctChange |-> pctChange,
                 isMajor |-> row.isMajor] >>
        ELSE <<>>

\* the projections pushed by steps s..numSteps
RECURSIVE ProjectFrom(_, _, _, _, _, _, _)
ProjectFrom(originPrice, w1Len, simI, isBull, currentPrice, numSteps, s) ==
    IF s > numSteps THEN <<>>
    ELSE ProjectStep(originPrice, w1Len, simI, isBull, currentPrice, s)
            \o ProjectFrom(originPrice, w1Len, simI, isBull, currentPrice, numSteps, s + 1)

\* projectWaves(originPrice, w1Len, simI, isBull, currentPrice, numSteps)
ProjectWaves(originPrice, w1Len, simI, isBull, currentPrice, numSteps) ==
    ProjectFrom(originPrice, w1Len, simI, isBull, currentPrice, numSteps, 1)

(***************************************************************************)
(* The caller of projectWaves: the arguments are drawn when it starts.     *)
(***************************************************************************)
MaxSimI == 9
MaxSteps == 12
OriginPrices == {-5, 0, 1, 100}
W1Nums == {0, 1, 10, 40}
W1Pers == {1000, 1618}
CurrentPrices == {0, 50, 110}

InitProject ==
    /\ candles = <<>>
    /\ depth = 5
    /\ pivots = <<>>
    /\ \E o \in OriginPrices, n \in W1Nums, per \in W1Pers, i \in 0..MaxSimI,
          b \in BOOLEAN, c \in CurrentPrices, k \in 0..MaxSteps :
            args = [originPrice |-> o, w1Len |-> W1Len(n, per), simI |-> i,
                    isBull |-> b, currentPrice |-> c, numSteps |-> k]
    /\ pc = "input"
    /\ result = NoValue

CallProjectWaves ==
    /\ pc = "input"
    /\ result' = ProjectWaves(args.originPrice, args.w1Len, args.simI, args.isBull,
                              args.currentPrice, args.numSteps)
    /\ pc' = "projectWaves"
    /\ UNCHANGED <<candles, depth, pivots, args>>

NextProject == CallProjectWaves

SpecProject == InitProject /\ [][NextProject]_vars

(***************************************************************************)
(* Claims about projectWaves (checked under SpecProject).                  *)
(***************************************************************************)

\* C3: for every originPrice, w1Len >= 0, simI >= 0, trend flag, currentPrice
\* and numSteps >= 0, projectWaves returns at most numSteps entries, their
\* step values are strictly increasing and all lie in 1..numSteps, and every
\* entry's target is > 0 (at least 0.01, that is one cent).
C3_ProjectionShape ==
    pc = "projectWaves" =>
        /\ Len(result) <= args.numSteps
        /\ \A i \in 1..Len(result) :
            /\ result[i].step \in 1..args.numSteps
            /\ result[i].target >= 1
        /\ \A i \in 1..(Len(result) - 1) : result[i].step < result[i + 1].step

\* C3 witness: a call that skipped some steps and clamped a target to 0.01.
C3_Witness ==
    /\ pc = "projectWaves"
    /\ Len(result) > 0
    /\ Len(result) < args.numSteps
    /\ \E i \in 1..Len(result) : result[i].target = 1

\* originPrice + cycle0Net + cw1 for the first step after simI = 8, as a
\* numerator over Den(w1Len): cycle0Net is trendSign * 2.381924 * w1Len and
\* cw1 is -trendSign * w1Len
WaveATarget(a) ==
    a.originPrice * Den(a.w1Len)
        + (IF a.isBull THEN 1 ELSE -1) * (2381924 - 1000000) * a.w1Len.num

\* cents is x (a numerator over den) rounded to the nearest cent, half up
IsRoundedCents(cents, x, den) ==
    LET unit == den \div 100 IN
    /\ 2 * x >= 2 * cents * unit - unit
    /\ 2 * x < 2 * cents * unit + unit

\* what C7 says of the first projection besides its target, and of the scenario
WaveAFirst(a, r) ==
    /\ Len(r) >= 1
    /\ r[1].step = 1
    /\ r[1].wave = "WAVE A"
    /\ r[1].label = "A"
    /\ r[1].fibRatio = "1.000"
    /\ r[1].isMajor = TRUE
    /\ (a.isBull /\ a.w1Len = W1Len(10, 1000) /\ a.originPrice = 100 /\ a.numSteps = 9) =>
            [i \in 1..Len(r) |-> r[i].step] = <<1, 4, 5, 8, 9>>

\* C7 (as amended): when projectWaves is called with simI = 8 and numSteps >= 1,
\* the first emitted projection has step 1, is Wave A of corrective cycle 1
\* (fibRatio "1.000", isMajor), and its target is originPrice + cycle0Net + cw1
\* (cw1 opposite to the trend, of magnitude w1Len) raised to at least 0.01 and
\* rounded to two decimals; for isBull, w1Len = 10, originPrice = 100,
\* numSteps = 9 exactly 5 projections are emitted, at steps 1, 4, 5, 8, 9.
C7_FirstIsWaveA ==
    (pc = "projectWaves" /\ args.simI = 8 /\ args.numSteps >= 1) =>
        /\ WaveAFirst(args, result)
        /\ IsRoundedCents(result[1].target,
                          Max(Den(args.w1Len) \div 100, WaveATarget(args)),
                          Den(args.w1Len))

\* C7 witness: the scenario of the claim, whose first target is 113.82.
C7_Witness ==
    /\ pc = "projectWaves"
    /\ args.simI = 8
    /\ args.isBull
    /\ args.w1Len = W1Len(10, 1000)
    /\ args.originPrice = 100
    /\ args.numSteps = 9
    /\ Len(result) = 5
    /\ result[1].target = 11382

\* C7 as stated: the first projection's target is exactly
\* originPrice + cycle0Net + cw1 (no clamp, no rounding).
C7_Original ==
    (pc = "projectWaves" /\ args.simI = 8 /\ args.numSteps >= 1) =>
        /\ WaveAFirst(args, result)
        /\ result[1].target * (Den(args.w1Len) \div 100) = WaveATarget(args)

(***************************************************************************)
(* 7. Full analysis pipeline, and 8. the thematic story                    *)
(*                                                                         *)
(* A result's prices that went through Math.round(x * 100) / 100 are in    *)
(* cents; the others (currentPrice, invalidationLevel, pivot prices) are   *)
(* in price units.  A sentence of the story is the tuple of its template   *)
(* and the values inserted into it.                                        *)
(***************************************************************************)
NullCandles == [null |-> TRUE]

HistoryError == [error |-> "Insufficient price data for Elliott Wave analysis"]

PivotsError == [error |-> "Not enough swing points detected. Try a longer history."]

\* reading .price of pivots[i] with i outside the array: a TypeError is thrown
Thrown == [thrown |-> "TypeError"]

MeasuredW1LenMutNoRescale(ps, structural) ==
    LET w1Len == Abs(At(ps, structural.w1).price - At(ps, structural.origin).price)
        sz == Len(ps)
    IN  IF w1Len = 0
        THEN W1Len(Abs(At(ps, sz - 1).price - At(ps, sz - 2).price), 1000)
        ELSE W1Len(w1Len, 1000)

\* lines 390-405: the measured length of Wave 1
MeasuredW1Len(ps, structural) ==
    LET originPrice == At(ps, structural.origin).price
        w1EndPrice == At(ps, structural.w1).price
        w1Len == Abs(w1EndPrice - originPrice)
        w2Price == At(ps, structural.w2).price
        w3Price == At(ps, structural.w3).price
        w3LenActual == Abs(w3Price - w2Price)
        scaled == IF w3LenActual > 0 /\ w1Len > 0 /\ w3LenActual * 1000 > w1Len * 2618
                  THEN W1Len(w3LenActual, 1618)
                  ELSE W1Len(w1Len, 1000)
        sz == Len(ps)
    IN  IF scaled.num * Million < scaled.per
        THEN W1Len(Abs(At(ps, sz - 1).price - At(ps, sz - 2).price), 1000)
        ELSE scaled

\* Array.prototype.find: the first element of s from position i on that is a
\* major projection with above = (target > currentPrice), or NoValue
RECURSIVE FindMajor(_, _, _, _)
FindMajor(s, i, currentPrice, above) ==
    IF i > Len(s) THEN NoValue
    ELSE IF s[i].isMajor /\ (IF above THEN s[i].target > currentPrice * 100
                                      ELSE s[i].target < currentPrice * 100)
         THEN s[i]
         ELSE FindMajor(s, i + 1, currentPrice, above)

\* lines 411-420
TradeSetup(projections, originPrice, currentPrice) ==
    LET nextUp == FindMajor(projections, 1, currentPrice, TRUE)
    IN  [entryLow |-> currentPrice * 97,
         entryHigh |-> currentPrice * 101,
         stopLoss |-> originPrice * 100,
         target |-> IF nextUp # NoValue THEN nextUp.target ELSE currentPrice * 115]

\* lines 454-455: filter, stable sort by target, element [0]; best is the
\* choice among the projections before position i
RECURSIVE ExtremeTarget(_, _, _, _, _)
ExtremeTarget(s, i, currentPrice, above, best) ==
    IF i > Len(s) THEN best
    ELSE LET p == s[i]
             passes == IF above THEN p.target > currentPrice * 100
                       ELSE p.target < currentPrice * 100
             better == \/ best = NoValue
                       \/ IF above THEN p.target > best.target ELSE p.target < best.target
         IN  ExtremeTarget(s, i + 1, currentPrice, above,
                           IF passes /\ better THEN p ELSE best)

\* generateThematicStory(currentWave, isBull, confidence, projections, currentPrice)
GenerateThematicStory(currentWave, isBull, confidence, projections, currentPrice) ==
    LET topTarget == ExtremeTarget(projections, 1, currentPrice, TRUE, NoValue)
        bottomTarget == ExtremeTarget(projections, 1, currentPrice, FALSE, NoValue)
        upside == IF topTarget # NoValue
                  THEN <<IF topTarget.pctChange > 0 THEN "+" ELSE "", topTarget.pctChange, "%">>
                  ELSE <<"limited">>
        downside == IF bottomTarget # NoValue
                    THEN <<bottomTarget.pctChange, "%">>
                    ELSE <<"limited">>
        wavePhase == currentWave.name
        confLabel == IF confidence >= 70 THEN "high"
                     ELSE IF confidence >= 40 THEN "moderate" ELSE "low"
    IN  IF isBull
        THEN [bullCase |-> <<"bullish impulse", wavePhase, confLabel, confidence, upside>>,
              bearCase |-> <<"corrective pullback", downside, confLabel,
                             IF confidence < 50 THEN "significant uncertainty"
                             ELSE "some caution">>]
        ELSE [bullCase |-> <<"potential reversal", wavePhase, upside>>,
              bearCase |-> <<"bearish structure", wavePhase, confLabel, confidence, downside>>]

WaveLabelled(p, label) ==
    [index |-> p.index, time |-> p.time, price |-> p.price, type |-> p.type,
     waveLabel |-> label]

\* lines 376-446: the analysis of at least 5 pivots
AnalyzePivots(ps, currentPrice) ==
    LET isBull == DetermineTrend(ps)
        structural == FindStructuralWaves(ps, isBull)
        confidence == EwConfidence(ps)
        currentWave == DetermineCurrentWave(ps, structural)
        inArray(i) == 0 <= i /\ i < Len(ps)
    IN  IF ~(/\ inArray(structural.origin) /\ inArray(structural.w1)
             /\ inArray(structural.w2) /\ inArray(structural.w3))
        THEN Thrown
        ELSE
        LET originPrice == At(ps, structural.origin).price
            w1Len == MeasuredW1Len(ps, structural)
            projections == ProjectWaves(originPrice, w1Len, currentWave.simI, isBull,
                                        currentPrice, 12)
            NoPivot == [index |-> NoValue, time |-> NoValue, price |-> NoValue,
                        type |-> NoValue]
            w4Pivot == IF inArray(structural.w4) THEN At(ps, structural.w4) ELSE NoPivot
        IN  [currentPrice |-> currentPrice,
             isBull |-> isBull,
             currentWave |-> currentWave.name,
             currentWaveLabel |-> currentWave.label,
             confidence |-> confidence,
             structuralPoints |->
                 << WaveLabelled(At(ps, structural.origin), "0"),
                    WaveLabelled(At(ps, structural.w1), "1"),
                    WaveLabelled(At(ps, structural.w2), "2"),
                    WaveLabelled(At(ps, structural.w3), "3"),
                    WaveLabelled(w4Pivot, "4") >>,
             pivots |-> [k \in 1..Len(ps) |->
                            [time |-> ps[k].time, price |-> ps[k].price, type |-> ps[k].type]],
             projections |-> projections,
             tradeSetup |-> TradeSetup(projections, originPrice, currentPrice),
             thematicStory |-> GenerateThematicStory(currentWave, isBull, confidence,
                                                     projections, currentPrice),
             invalidationLevel |-> originPrice]

AnalyzeElliottWavesMutPivotsFirst(cs) ==
    IF cs = NullCandles THEN HistoryError
    ELSE LET currentPrice == At(cs, Len(cs) - 1).close
             ps == DetectPivots(cs, 5)
         IN  IF Len(ps) < 5 THEN PivotsError
             ELSE IF Len(cs) < 20 THEN HistoryError
             ELSE AnalyzePivots(ps, currentPrice)

AnalyzeElliottWavesMutDepth3(cs) ==
    IF cs = NullCandles \/ Len(cs) < 20 THEN HistoryError
    ELSE LET currentPrice == At(cs, Len(cs) - 1).close
             ps == DetectPivots(cs, 3)
         IN  IF Len(ps) < 5 THEN PivotsError
             ELSE AnalyzePivots(ps, currentPrice)

\* analyzeElliottWaves(candles)
AnalyzeElliottWaves(cs) ==
    IF cs = NullCandles \/ Len(cs) < 20 THEN HistoryError
    ELSE LET currentPrice == At(cs, Len(cs) - 1).close
             ps == DetectPivots(cs, 5)
         IN  IF Len(ps) < 5 THEN PivotsError
             ELSE AnalyzePivots(ps, currentPrice)

(***************************************************************************)
(* The caller of analyzeElliottWaves.  It passes no candles at all, or a   *)
(* series built from swings: each swing appends a run of bars that move by *)
(* the same step, from a first bar around StartPrice; a bar's high and low *)
(* are one unit above and below its close.                                 *)
(***************************************************************************)
MaxBars == 36
MaxSwings == 6
MaxPrice == 120
StartPrice == 60

\* <<number of bars, move per bar>>
Swings == {<<6, 1>>, <<6, -1>>, <<6, 4>>, <<6, -4>>, <<2, -1>>}

\* cs followed by n bars, each d above the one before
RECURSIVE Extend(_, _, _)
Extend(cs, n, d) ==
    IF n = 0 THEN cs
    ELSE LET prev == IF cs = <<>> THEN StartPrice ELSE cs[Len(cs)].close
         IN  Extend(Append(cs, Candle(Len(cs), prev + d + 1, prev + d - 1, prev + d)),
                    n - 1, d)

InitAnalyze ==
    /\ candles \in {<<>>, NullCandles}
    /\ depth = 5
    /\ pivots = <<>>
    /\ args = [swings |-> 0]
    /\ pc = "input"
    /\ result = NoValue

AddSwing ==
    /\ pc = "input"
    /\ candles # NullCandles
    /\ args.swings < MaxSwings
    /\ \E sw \in Swings :
        LET next == Extend(candles, sw[1], sw[2]) IN
        /\ Len(next) <= MaxBars
        /\ next[Len(next)].low >= 1
        /\ next[Len(next)].high <= MaxPrice
        /\ candles' = next
    /\ args' = [swings |-> args.swings + 1]
    /\ UNCHANGED <<depth, pivots, pc, result>>

CallAnalyzeElliottWaves ==
    /\ pc = "input"
    /\ result' = AnalyzeElliottWaves(candles)
    /\ pc' = "analyzeElliottWaves"
    /\ UNCHANGED <<candles, depth, pivots, args>>

NextAnalyze == AddSwing \/ CallAnalyzeElliottWaves

SpecAnalyze == InitAnalyze /\ [][NextAnalyze]_vars

(***************************************************************************)
(* Claims about analyzeElliottWaves (checked under SpecAnalyze).           *)
(***************************************************************************)

\* the five anchors are positions of the pivot array ps
AnchorsInArray(st, ps) ==
    \A f \in {"origin", "w1", "w2", "w3", "w4"} : st[f] \in 0..(Len(ps) - 1)

\* C4: analyzeElliottWaves never throws for a well-formed candle sequence:
\* with fewer than 20 candles (or no candles) it returns a record carrying
\* only an 'insufficient price data' error; with >= 20 candles but fewer than
\* 5 detected pivots a record carrying only a 'not enough swing points' error
\* (the history check comes first); with >= 20 candles and >= 5 pivots a full
\* result with no error field, every anchor used to read a pivot in bounds.
C4_ErrorsAsValues ==
    pc = "analyzeElliottWaves" =>
        /\ result # Thrown
        /\ (candles = NullCandles \/ Len(candles) < 20) =>
              result = [error |-> "Insufficient price data for Elliott Wave analysis"]
        /\ (candles # NullCandles /\ Len(candles) >= 20) =>
              LET ps == DetectPivots(candles, 5) IN
              /\ Len(ps) < 5 =>
                    result = [error |-> "Not enough swing points detected. Try a longer history."]
              /\ Len(ps) >= 5 =>
                    /\ DOMAIN result =
                          {"currentPrice", "isBull", "currentWave", "currentWaveLabel",
                           "confidence", "structuralPoints", "pivots", "projections",
                           "tradeSetup", "thematicStory", "invalidationLevel"}
                    /\ AnchorsInArray(FindStructuralWaves(ps, result.isBull), ps)
                    /\ \A k \in 1..5 :
                          \E j \in 1..Len(ps) :
                              /\ result.structuralPoints[k].index = ps[j].index
                              /\ result.structuralPoints[k].price = ps[j].price

\* C4 witness: a full result (>= 20 candles, >= 5 pivots) was returned.
C4_Witness ==
    /\ pc = "analyzeElliottWaves"
    /\ candles # NullCandles
    /\ Len(candles) >= 20
    /\ DOMAIN result # {"error"}
    /\ Len(result.pivots) >= 5
    /\ Len(result.projections) > 0

\* highs and lows both strictly increasing from bar to bar
StrictlyRising(cs) ==
    \A i \in 1..(Len(cs) - 1) : cs[i].high < cs[i + 1].high /\ cs[i].low < cs[i + 1].low

\* C6: for any candle sequence of length >= 20 whose highs and lows are
\* strictly increasing, detectPivots with depth 5 yields at most two pivots
\* (fewer than 5) and analyzeElliottWaves returns the 'not enough swing points'
\* error.
C6_MonotoneSeries ==
    (/\ pc = "analyzeElliottWaves"
     /\ candles # NullCandles
     /\ Len(candles) >= 20
     /\ StrictlyRising(candles)) =>
        /\ Len(DetectPivots(candles, 5)) <= 2
        /\ result = [error |-> "Not enough swing points detected. Try a longer history."]

\* C6 witness: a strictly rising series of at least 30 bars was analyzed.
C6_Witness ==
    /\ pc = "analyzeElliottWaves"
    /\ candles # NullCandles
    /\ Len(candles) >= 30
    /\ StrictlyRising(candles)
    /\ DOMAIN result = {"error"}

(***************************************************************************)
(* The caller of determineCurrentWave: a pivot sequence of 0..MaxWavePivots *)
(* pivots and a structural record whose anchors are any positions          *)
(* 0..MaxAnchor are drawn when it starts.                                  *)
(***************************************************************************)
MaxWavePivots == 5
MaxAnchor == 4

InitWave ==
    /\ candles = <<>>
    /\ depth = 5
    /\ \E n \in 0..MaxWavePivots : pivots = [k \in 1..n |-> PivotAt(k, 10 + (k % 2))]
    /\ \E a \in 0..MaxAnchor, b \in 0..MaxAnchor, c \in 0..MaxAnchor, d \in 0..MaxAnchor :
            args = [structural |-> Anchors(0, a, b, c, d)]
    /\ pc = "input"
    /\ result = NoValue

CallDetermineCurrentWave ==
    /\ pc = "input"
    /\ result' = DetermineCurrentWave(pivots, args.structural)
    /\ pc' = "determineCurrentWave"
    /\ UNCHANGED <<candles, depth, pivots, args>>

NextWave == CallDetermineCurrentWave

SpecWave == InitWave /\ [][NextWave]_vars

(***************************************************************************)
(* Claims about determineCurrentWave (checked under SpecWave).             *)
(***************************************************************************)

\* C11: determineCurrentWave returns simI in {0,3,4,7,8}, chosen by the first
\* matching test on last = len(pivots) - 1: last <= w1 gives 0, else
\* last <= w2 gives 3, else last <= w3 gives 4, else last <= w4 gives 7, else
\* 8; the returned name and label are the entries of the fixed 9-entry tables
\* at index simI.
C11_CurrentWave ==
    pc = "determineCurrentWave" =>
        LET last == Len(pivots) - 1
            st == args.structural
            names == [i \in 0..8 |->
                        CASE i = 0 -> "Wave 1" [] i = 1 -> "Wave 2A" [] i = 2 -> "Wave 2B"
                          [] i = 3 -> "Wave 2C" [] i = 4 -> "Wave 3" [] i = 5 -> "Wave 4A"
                          [] i = 6 -> "Wave 4B" [] i = 7 -> "Wave 4C" [] i = 8 -> "Wave 5"]
            labels == [i \in 0..8 |->
                        CASE i = 0 -> "(1)" [] i = 1 -> "A" [] i = 2 -> "B"
                          [] i = 3 -> "(2)" [] i = 4 -> "(3)" [] i = 5 -> "A"
                          [] i = 6 -> "B" [] i = 7 -> "(4)" [] i = 8 -> "(5)"]
        IN  /\ result.simI \in {0, 3, 4, 7, 8}
            /\ (result.simI = 0) = (last <= st.w1)
            /\ (result.simI = 3) = (last > st.w1 /\ last <= st.w2)
            /\ (result.simI = 4) = (last > st.w1 /\ last > st.w2 /\ last <= st.w3)
            /\ (result.simI = 7) =
                  (last > st.w1 /\ last > st.w2 /\ last > st.w3 /\ last <= st.w4)
            /\ (result.simI = 8) =
                  (last > st.w1 /\ last > st.w2 /\ last > st.w3 /\ last > st.w4)
            /\ result.name = names[result.simI]
            /\ result.label = labels[result.simI]

\* C11 witness: the last pivot is exactly the w2 anchor, past w1, although a
\* later test (w3) would match as well: the first matching test gave 3.
C11_Witness ==
    /\ pc = "determineCurrentWave"
    /\ Len(pivots) - 1 = args.structural.w2
    /\ Len(pivots) - 1 > args.structural.w1
    /\ Len(pivots) - 1 <= args.structural.w3
    /\ result.simI = 3
    /\ result.name = "Wave 2C"

(***************************************************************************)
(* A second caller of analyzeElliottWaves, whose series is built from      *)
(* blocks of flat bars (equal highs and equal lows, which confirm no       *)
(* swing) with single spike or dip bars between them.  The low level has   *)
(* bars of high 4 / low 3 and a spike to 5; the high level has bars of     *)
(* high 7 / low 6, a dip to 5 and spikes to 8 and 16.  A swing high of the *)
(* low level can so have the price of a swing low of the high level.       *)
(***************************************************************************)
MaxFlatBars == 40
FlatRun == 5

Bar(h, l, c) == [high |-> h, low |-> l, close |-> c]

FlatLow == [k \in 1..FlatRun |-> Bar(4, 3, 3)]
FlatHigh == [k \in 1..FlatRun |-> Bar(7, 6, 6)]

Blocks ==
    { FlatLow \o <<Bar(5, 3, 4)>> \o FlatLow,
      FlatHigh,
      FlatHigh \o <<Bar(7, 5, 6)>>,
      FlatHigh \o <<Bar(8, 6, 7)>>,
      FlatHigh \o <<Bar(16, 6, 7)>> }

\* cs followed by the bars of block b
AppendBlock(cs, b) ==
    cs \o [k \in 1..Len(b) |-> Candle(Len(cs) + k - 1, b[k].high, b[k].low, b[k].close)]

InitAnalyzeFlat ==
    /\ candles = <<>>
    /\ depth = 5
    /\ pivots = <<>>
    /\ args = [blocks |-> 0]
    /\ pc = "input"
    /\ result = NoValue

AddBlock ==
    /\ pc = "input"
    /\ \E b \in Blocks :
        /\ Len(candles) + Len(b) <= MaxFlatBars
        /\ candles' = AppendBlock(candles, b)
    /\ args' = [blocks |-> args.blocks + 1]
    /\ UNCHANGED <<depth, pivots, pc, result>>

NextAnalyzeFlat == AddBlock \/ CallAnalyzeElliottWaves

SpecAnalyzeFlat == InitAnalyzeFlat /\ [][NextAnalyzeFlat]_vars

(***************************************************************************)
(* Claims about the trade setup and the measured Wave 1 length of          *)
(* analyzeElliottWaves.                                                    *)
(***************************************************************************)

\* a full result (no error) was returned
FullResult == pc = "analyzeElliottWaves" /\ result # Thrown /\ DOMAIN result # {"error"}

\* the positions of the major projections above the current price (in cents)
MajorsAbove(r) ==
    {i \in 1..Len(r.projections) :
        r.projections[i].isMajor /\ r.projections[i].target > r.currentPrice * 100}

\* What the code computes for C12: tradeSetup.target is the target of the first major
\* projection, in step order, whose target is strictly above the current
\* price, or currentPrice x 1.15 when no major projection lies above it.
C12_NextMajorAbove ==
    FullResult =>
        LET above == MajorsAbove(result) IN
        IF above = {}
        THEN result.tradeSetup.target = result.currentPrice * 115
        ELSE \E i \in above :
                /\ \A j \in above : result.projections[i].step <= result.projections[j].step
                /\ result.tradeSetup.target = result.projections[i].target

\* C12 witness: the first major projection above the price is not the one
\* with the smallest target above the price.
C12_Witness ==
    /\ FullResult
    /\ \E i \in MajorsAbove(result) :
            /\ result.projections[i].target < result.tradeSetup.target
            /\ result.tradeSetup.target # result.currentPrice * 115

\* C12 as stated: tradeSetup.target is the smallest target of the major
\* projections strictly above the current price, or currentPrice x 1.15.
C12_Original ==
    FullResult =>
        LET above == MajorsAbove(result) IN
        IF above = {}
        THEN result.tradeSetup.target = result.currentPrice * 115
        ELSE \E i \in above :
                /\ \A j \in above : result.projections[i].target <= result.projections[j].target
                /\ result.tradeSetup.target = result.projections[i].target

\* |price(pivot[a]) - price(pivot[b])| for two positions of the pivots ps
Leg(ps, a, b) == Abs(At(ps, a).price - At(ps, b).price)

\* the projections of a full result are those of a Wave 1 of length w1Len
ProjectedWith(r, ps, st, w1Len) ==
    r.projections =
        ProjectWaves(At(ps, st.origin).price, w1Len, DetermineCurrentWave(ps, st).simI,
                     r.isBull, r.currentPrice, 12)

\* C13 (as amended): with w1Len initially |price(pivot[w1]) - price(pivot[origin])|,
\* whenever w1Len > 0 and the actual W2->W3 leg exceeds 2.618 x w1Len, w1Len is
\* rescaled to actualW3Leg / 1.618 before the '< 0.001' fallback is applied;
\* with w1Len = 0 there is no rescaling and the fallback (the last leg) is used.
C13_Rescale ==
    FullResult =>
        LET ps == DetectPivots(candles, 5)
            st == FindStructuralWaves(ps, result.isBull)
            w1 == Leg(ps, st.w1, st.origin)
            w3Leg == Leg(ps, st.w3, st.w2)
            lastLeg == Leg(ps, Len(ps) - 1, Len(ps) - 2)
        IN  ProjectedWith(result, ps, st,
                IF w1 > 0 /\ w3Leg * 1000 > w1 * 2618 THEN W1Len(w3Leg, 1618)
                ELSE IF w1 = 0 THEN W1Len(lastLeg, 1000)
                ELSE W1Len(w1, 1000))

\* C13 witness: a Wave 1 of positive length and a W2->W3 leg above 2.618 times
\* it; the projections are those of the rescaled length, not of the measured one.
C13_Witness ==
    /\ FullResult
    /\ LET ps == DetectPivots(candles, 5)
           st == FindStructuralWaves(ps, result.isBull)
           w1 == Leg(ps, st.w1, st.origin)
           w3Leg == Leg(ps, st.w3, st.w2)
       IN  /\ w1 > 0
           /\ w3Leg * 1000 > w1 * 2618
           /\ ProjectedWith(result, ps, st, W1Len(w3Leg, 1618))
           /\ ~ProjectedWith(result, ps, st, W1Len(w1, 1000))

\* C13 as stated: the rescaling happens whenever the W2->W3 leg exceeds
\* 2.618 x w1Len, the case w1Len = 0 with a non-zero leg included.
C13_Original ==
    FullResult =>
        LET ps == DetectPivots(candles, 5)
            st == FindStructuralWaves(ps, result.isBull)
            w1 == Leg(ps, st.w1, st.origin)
            w3Leg == Leg(ps, st.w3, st.w2)
            lastLeg == Leg(ps, Len(ps) - 1, Len(ps) - 2)
        IN  ProjectedWith(result, ps, st,
                IF w3Leg * 1000 > w1 * 2618 THEN W1Len(w3Leg, 1618)
                ELSE IF w1 = 0 THEN W1Len(lastLeg, 1000)
                ELSE W1Len(w1, 1000))

(***************************************************************************)
(* Backtest engine (src/src/lib/backtestEngine.js): runBacktest with the   *)
(* strategies rsi2 and bollingerBounce.                                    *)
(*                                                                         *)
(* The indicator arithmetic (computeRSI, computeSMA, computeBollingerBands) *)
(* is not computed: a bar carries, next to its close, the outcome of the   *)
(* comparisons that the strategy makes on the indicators at that bar, and  *)
(* the outcomes are inputs.  The candle sequence of the model holds the    *)
(* bars from the strategy's first signal index on (200 for rsi2, 50 for    *)
(* bollingerBounce); the warm-up bars before it produce no signal, no      *)
(* equity point and no trade.  Capital and closes are integers, so shares, *)
(* pnl and equity are integers; values the code rounds to two decimals are *)
(* kept in hundredths.                                                     *)
(***************************************************************************)

\* the loop start of executeRSI2 (line 208) and executeBollingerBounce (line 268)
FirstSignalIdx(strategyId) == IF strategyId = "bollingerBounce" THEN 50 ELSE 200

\* lines 209-216: the signal of executeRSI2 for bar i, from the comparisons
\* aboveSMA, oversold and overbought
SignalRSI2(i, ind) ==
    IF ind.aboveSMA /\ ind.oversold
    THEN [idx |-> i, action |-> "buy", reason |-> "RSI Oversold"]
    ELSE IF ind.overbought
    THEN [idx |-> i, action |-> "sell", reason |-> "RSI Overbought"]
    ELSE [idx |-> i, action |-> "hold", maxHold |-> 10]

\* lines 269-280: the signal of executeBollingerBounce for bar i
SignalBollingerBounce(i, ind) ==
    IF ind.null
    THEN [idx |-> i, action |-> "hold"]
    ELSE IF ind.inUptrend /\ ind.atLower
    THEN [idx |-> i, action |-> "buy", reason |-> "Lower Band Touch"]
    ELSE IF ind.atUpper
    THEN [idx |-> i, action |-> "sell", reason |-> "Upper Band"]
    ELSE IF ind.atMiddle
    THEN [idx |-> i, action |-> "sell", reason |-> "Middle Band"]
    ELSE [idx |-> i, action |-> "hold", maxHold |-> 15]

\* executeRSI2 / executeBollingerBounce: one signal per bar from the first
\* signal index on; bars[k] is the bar of index FirstSignalIdx + k - 1
ExecuteStrategy(bars, strategyId) ==
    [k \in 1..Len(bars) |->
        LET i == FirstSignalIdx(strategyId) + k - 1 IN
        IF strategyId = "bollingerBounce" THEN SignalBollingerBounce(i, bars[k].boll)
        ELSE SignalRSI2(i, bars[k].rsi2)]

\* x.maxHold || 9999
MaxHoldOr9999(x) ==
    IF "maxHold" \in DOMAIN x /\ x.maxHold # 0 THEN x.maxHold ELSE 9999

SimulateBarMutOneShareMore(st, i, price, time, sig) ==
    LET pos == st.position
        currentEquity == IF pos # NoValue
                         THEN st.capital + pos.shares * (price - pos.entryPrice)
                         ELSE st.capital
        curve == Append(st.equityCurve, [time |-> time, equity |-> currentEquity * 100])
        peak == IF currentEquity > st.peakCapital THEN currentEquity ELSE st.peakCapital
        \* dd = ((peak - equity) / peak) * 100 as a fraction; 0 / 0 is NaN
        dd == [num |-> (peak - currentEquity) * 100, den |-> peak]
        maxDD == IF dd.den > 0 /\ dd.num * st.maxDrawdown.den > st.maxDrawdown.num * dd.den
                 THEN dd ELSE st.maxDrawdown
        base == [st EXCEPT !.equityCurve = curve, !.peakCapital = peak,
                           !.maxDrawdown = maxDD]
    IN  IF pos # NoValue
        THEN LET holdDays == i - pos.entryIdx
                 maxHold == MaxHoldOr9999(pos)
                 sells == sig.action = "sell"
                 shouldExit == holdDays >= maxHold \/ sells
                 exitReason == IF sells THEN sig.reason ELSE "Max Hold Days"
                 pnl == pos.shares * (price - pos.entryPrice)
             IN  IF shouldExit
                 THEN [base EXCEPT
                         !.capital = st.capital + pnl,
                         !.trades = Append(st.trades,
                            [entryDate |-> pos.entryIdx, entryPrice |-> pos.entryPrice * 100,
                             exitDate |-> time, exitPrice |-> price * 100,
                             holdDays |-> holdDays, pnl |-> pnl * 100,
                             pnlPct |-> RoundPct(price, pos.entryPrice),
                             exitReason |-> exitReason]),
                         !.position = NoValue]
                 ELSE base
        ELSE IF sig.action = "buy"
        THEN LET shares == st.capital \div price + 1 IN
             IF shares > 0
             THEN [base EXCEPT !.position =
                        [entryIdx |-> i, entryPrice |-> price, shares |-> shares,
                         maxHold |-> MaxHoldOr9999(sig)]]
             ELSE base
        ELSE base

\* lines 326-379: one iteration of the loop of simulateTrades
SimulateBar(st, i, price, time, sig) ==
    LET pos == st.position
        currentEquity == IF pos # NoValue
                         THEN st.capital + pos.shares * (price - pos.entryPrice)
                         ELSE st.capital
        curve == Append(st.equityCurve, [time |-> time, equity |-> currentEquity * 100])
        peak == IF currentEquity > st.peakCapital THEN currentEquity ELSE st.peakCapital
        \* dd = ((peak - equity) / peak) * 100 as a fraction; 0 / 0 is NaN
        dd == [num |-> (peak - currentEquity) * 100, den |-> peak]
        maxDD == IF dd.den > 0 /\ dd.num * st.maxDrawdown.den > st.maxDrawdown.num * dd.den
                 THEN dd ELSE st.maxDrawdown
        base == [st EXCEPT !.equityCurve = curve, !.peakCapital = peak,
                           !.maxDrawdown = maxDD]
    IN  IF pos # NoValue
        THEN LET holdDays == i - pos.entryIdx
                 maxHold == MaxHoldOr9999(pos)
                 sells == sig.action = "sell"
                 shouldExit == holdDays >= maxHold \/ sells
                 exitReason == IF sells THEN sig.reason ELSE "Max Hold Days"
                 pnl == pos.shares * (price - pos.entryPrice)
             IN  IF shouldExit
                 THEN [base EXCEPT
                         !.capital = st.capital + pnl,
                         !.trades = Append(st.trades,
                            [entryDate |-> pos.entryIdx, entryPrice |-> pos.entryPrice * 100,
                             exitDate |-> time, exitPrice |-> price * 100,
                             holdDays |-> holdDays, pnl |-> pnl * 100,
                             pnlPct |-> RoundPct(price, pos.entryPrice),
                             exitReason |-> exitReason]),
                         !.position = NoValue]
                 ELSE base
        ELSE IF sig.action = "buy"
        THEN LET shares == st.capital \div price IN
             IF shares > 0
             THEN [base EXCEPT !.position =
                        [entryIdx |-> i, entryPrice |-> price, shares |-> shares,
                         maxHold |-> MaxHoldOr9999(sig)]]
             ELSE base
        ELSE base

\* lines 326-379: the loop over the bars k..Len(bars)
RECURSIVE SimulateFrom(_, _, _, _, _)
SimulateFrom(st, bars, signals, first, k) ==
    IF k > Len(bars) THEN st
    ELSE SimulateFrom(SimulateBar(st, first + k - 1, bars[k].close, first + k - 1, signals[k]),
                      bars, signals, first, k + 1)

CloseOpenPositionMutLeaveOpen(st, bars, first) == st

\* lines 381-399: close the position that is still open after the last bar
CloseOpenPosition(st, bars, first) ==
    IF st.position = NoValue THEN st
    ELSE LET pos == st.position
             lastIdx == first + Len(bars) - 1
             lastPrice == bars[Len(bars)].close
             pnl == pos.shares * (lastPrice - pos.entryPrice)
         IN  [st EXCEPT
                !.capital = st.capital + pnl,
                !.trades = Append(st.trades,
                    [entryDate |-> pos.entryIdx, entryPrice |-> pos.entryPrice * 100,
                     exitDate |-> lastIdx, exitPrice |-> lastPrice * 100,
                     holdDays |-> lastIdx - pos.entryIdx, pnl |-> pnl * 100,
                     pnlPct |-> RoundPct(lastPrice, pos.entryPrice),
                     exitReason |-> "End of Period"])]

\* simulateTrades(candles, signals, initialCapital), for at least one signal
SimulateTrades(bars, signals, first, initialCapital) ==
    LET init == [capital |-> initialCapital, position |-> NoValue,
                 peakCapital |-> initialCapital, maxDrawdown |-> [num |-> 0, den |-> 1],
                 trades |-> <<>>, equityCurve |-> <<>>]
        st == CloseOpenPosition(SimulateFrom(init, bars, signals, first, 1), bars, first)
        winners == {k \in 1..Len(st.trades) : st.trades[k].pnl > 0}
        losers == {k \in 1..Len(st.trades) : st.trades[k].pnl <= 0}
    IN  [stats |-> [totalTrades |-> Len(st.trades),
                    winners |-> Cardinality(winners),
                    losers |-> Cardinality(losers),
                    totalReturn |-> (st.capital - initialCapital) * 100,
                    maxDrawdown |-> st.maxDrawdown,
                    finalCapital |-> st.capital * 100],
         trades |-> st.trades,
         equityCurve |-> st.equityCurve]

\* runBacktest(candles, strategyId, initialCapital)
RunBacktest(bars, strategyId, initialCapital) ==
    LET r == SimulateTrades(bars, ExecuteStrategy(bars, strategyId),
                            FirstSignalIdx(strategyId), initialCapital)
    IN  [stats |-> r.stats, trades |-> r.trades, equityCurve |-> r.equityCurve,
         strategyId |-> strategyId]

(***************************************************************************)
(* The caller of runBacktest.  It picks a strategy and a capital and       *)
(* builds the bars in runs of 1 or RunLen bars that share a close and the  *)
(* outcome of the indicator comparisons.                                   *)
(***************************************************************************)
MaxRuns == 3
RunLen == 8

RSI2Ind(above, oversold, overbought) ==
    [aboveSMA |-> above, oversold |-> oversold, overbought |-> overbought]

BollInd(null, up, lower, upper, middle) ==
    [null |-> null, inUptrend |-> up, atLower |-> lower, atUpper |-> upper,
     atMiddle |-> middle]

\* the kinds of bars: a dip, a rally, a quiet bar, a bar below the trend, and
\* a rebound at a low price that gives a sell signal below the entry price
BarKinds ==
    { [close |-> 2, rsi2 |-> RSI2Ind(TRUE, TRUE, FALSE),
                    boll |-> BollInd(FALSE, TRUE, TRUE, FALSE, FALSE)],
      [close |-> 4, rsi2 |-> RSI2Ind(TRUE, FALSE, TRUE),
                    boll |-> BollInd(FALSE, TRUE, FALSE, TRUE, TRUE)],
      [close |-> 3, rsi2 |-> RSI2Ind(TRUE, FALSE, FALSE),
                    boll |-> BollInd(FALSE, TRUE, FALSE, FALSE, FALSE)],
      [close |-> 1, rsi2 |-> RSI2Ind(FALSE, TRUE, FALSE),
                    boll |-> BollInd(TRUE, FALSE, FALSE, FALSE, FALSE)],
      [close |-> 1, rsi2 |-> RSI2Ind(FALSE, FALSE, TRUE),
                    boll |-> BollInd(FALSE, FALSE, FALSE, FALSE, TRUE)] }

Capitals == {0, 1, 10}

InitBacktest ==
    /\ candles = <<>>
    /\ depth = 5
    /\ pivots = <<>>
    /\ \E sid \in {"rsi2", "bollingerBounce"}, cap \in Capitals :
            args = [strategyId |-> sid, initialCapital |-> cap, runs |-> 0]
    /\ pc = "input"
    /\ result = NoValue

AddRun ==
    /\ pc = "input"
    /\ args.runs < MaxRuns
    /\ \E kind \in BarKinds, n \in {1, RunLen} :
            candles' = candles \o [k \in 1..n |-> kind]
    /\ args' = [args EXCEPT !.runs = args.runs + 1]
    /\ UNCHANGED <<depth, pivots, pc, result>>

CallRunBacktest ==
    /\ pc = "input"
    /\ Len(candles) >= 1
    /\ result' = RunBacktest(candles, args.strategyId, args.initialCapital)
    /\ pc' = "runBacktest"
    /\ UNCHANGED <<candles, depth, pivots, args>>

NextBacktest == AddRun \/ CallRunBacktest

SpecBacktest == InitBacktest /\ [][NextBacktest]_vars

(***************************************************************************)
(* Claims about runBacktest (checked under SpecBacktest).                  *)
(***************************************************************************)

\* the documented maximum holding period of a strategy (lines 149 and 182)
DocumentedMaxHold(strategyId) == IF strategyId = "bollingerBounce" THEN 15 ELSE 10

\* C14: a position opened by the rsi2 strategy is exited no later than 10 bars
\* after entry and one opened by bollingerBounce no later than 15 bars after
\* entry: no trade of these strategies has holdDays above the documented
\* maximum.
C14_MaxHold ==
    pc = "runBacktest" =>
        \A k \in 1..Len(result.trades) :
            result.trades[k].holdDays <= DocumentedMaxHold(result.strategyId)

\* C14 witness: a position was held past the documented maximum and then
\* exited on a sell signal; no trade ever exits with 'Max Hold Days'.
C14_Witness ==
    /\ pc = "runBacktest"
    /\ \E k \in 1..Len(result.trades) :
            /\ result.trades[k].holdDays > DocumentedMaxHold(result.strategyId)
            /\ result.trades[k].exitReason \in {"RSI Overbought", "Upper Band", "Middle Band"}

(***************************************************************************)
(* Further claims about projectWaves (checked under SpecProject).          *)
(***************************************************************************)

\* the sub-phases that are major turning points
MajorIdx == {0, 3, 4, 7, 8}

\* the Fibonacci ratio printed for each sub-phase 0..8
FibOfIdx(i) ==
    CASE i = 0 -> "1.000" [] i = 1 -> "0.382" [] i = 2 -> "0.500" [] i = 3 -> "0.618"
      [] i = 4 -> "1.618" [] i = 5 -> "0.236" [] i = 6 -> "0.500" [] i = 7 -> "0.382"
      [] i = 8 -> "1.000"

\* C15: step s (effAbsIdx = simI + s, cycleNum = effAbsIdx div 9, currIdx =
\* effAbsIdx mod 9) is emitted iff cycleNum is even or currIdx is in
\* {0,3,4,7,8}; an emitted entry is major iff currIdx is in {0,3,4,7,8}; its
\* fibRatio is the table value for currIdx in both cycle kinds; so every
\* emitted corrective-cycle entry is major.
C15_EmittedSteps ==
    pc = "projectWaves" =>
        /\ \A s \in 1..args.numSteps :
              LET eff == args.simI + s IN
              (\E i \in 1..Len(result) : result[i].step = s)
                  = ((eff \div 9) % 2 = 0 \/ eff % 9 \in MajorIdx)
        /\ \A i \in 1..Len(result) :
              LET eff == args.simI + result[i].step IN
              /\ result[i].isMajor = (eff % 9 \in MajorIdx)
              /\ result[i].fibRatio = FibOfIdx(eff % 9)
              /\ (eff \div 9) % 2 = 1 => result[i].isMajor

\* C15 witness: a call that skipped a corrective sub-point, emitted a
\* non-major motive sub-point and reached the second motive cycle.
C15_Witness ==
    /\ pc = "projectWaves"
    /\ \E s \in 1..args.numSteps :
            /\ ((args.simI + s) \div 9) % 2 = 1
            /\ \A i \in 1..Len(result) : result[i].step # s
    /\ \E i \in 1..Len(result) : ~result[i].isMajor
    /\ \E i \in 1..Len(result) : (args.simI + result[i].step) \div 9 = 2

(***************************************************************************)
(* A caller of projectWaves that asks for many steps, so that the steps    *)
(* run through several motive and corrective cycles.                       *)
(***************************************************************************)
MaxLongSteps == 40

InitProjectLong ==
    /\ candles = <<>>
    /\ depth = 5
    /\ pivots = <<>>
    /\ \E o \in {0, 100}, per \in W1Pers, i \in {0, 3, 4, 7, 8},
          b \in BOOLEAN, c \in {0, 50}, k \in 0..MaxLongSteps :
            args = [originPrice |-> o, w1Len |-> W1Len(10, per), simI |-> i,
                    isBull |-> b, currentPrice |-> c, numSteps |-> k]
    /\ pc = "input"
    /\ result = NoValue

SpecProjectLong == InitProjectLong /\ [][NextProject]_vars

\* trendSign x (len1 - len2 + len3 - len4 + len5) as a numerator over Den(w1Len):
\* 1 - 0.618 + 1.618 - 1.618 x 0.382 + 1 = 2.381924 times w1Len
NetOfOneCycle(a) == (IF a.isBull THEN 1 ELSE -1) * 2381924 * a.w1Len.num

\* the target of the step with absolute index eff when the prior cumulative
\* displacement is prior
TargetWithPrior(a, eff, prior) ==
    LET den == Den(a.w1Len)
        cyc == eff \div 9
        row == TableRow(cyc, eff % 9, CycleTargets(Legs(a.w1Len), ActiveDir(cyc, a.isBull)))
    IN  RoundCents(ClampTarget(a.originPrice * den + prior + row.relTp, den), den)

\* C16: for every step the prior cumulative displacement priorCyclesMove is
\* cycle0Net when cycleNum is odd and 0 when cycleNum is even, for every
\* cycleNum >= 0, where cycle0Net = trendSign x (len1 - len2 + len3 - len4 +
\* len5); displacement never accumulates beyond one net cycle magnitude.
C16_PriorCyclesMove ==
    pc = "projectWaves" =>
        \A i \in 1..Len(result) :
            LET eff == args.simI + result[i].step
                prior == IF (eff \div 9) % 2 = 1 THEN NetOfOneCycle(args) ELSE 0
            IN  /\ PriorCyclesMove(eff \div 9, Cycle0Net(Legs(args.w1Len), args.isBull)) = prior
                /\ result[i].target = TargetWithPrior(args, eff, prior)

\* C16 witness: projections of cycles 3 and 4 whose targets are not clamped,
\* the one of cycle 3 differing from what no displacement would give.
C16_Witness ==
    /\ pc = "projectWaves"
    /\ \E i \in 1..Len(result) :
            LET eff == args.simI + result[i].step IN
            /\ eff \div 9 = 3
            /\ result[i].target > 1
            /\ result[i].target # TargetWithPrior(args, eff, 0)
    /\ \E i \in 1..Len(result) :
            (args.simI + result[i].step) \div 9 = 4 /\ result[i].target > 1

(***************************************************************************)
(* The caller of findStructuralWaves.  The pivot sequence is drawn when it *)
(* starts: up to MaxOlderPivots old pivots with an extreme price, then     *)
(* either nothing or FillerLen pivots that zigzag between 10 and 11, then  *)
(* up to MaxRecentPivots pivots with any price of StructPrices.  With the  *)
(* filler the sequence has up to 22 pivots and the old pivots fall out of  *)
(* the window of 20.                                                       *)
(***************************************************************************)
MaxOlderPivots == 2
FillerLen == 16
MaxRecentPivots == 4
ExtremePrices == {0, 30}
StructPrices == {9, 10, 11, 20, 22}

\* the pivots with the prices of the sequence s
PivotsOf(s) == [k \in 1..Len(s) |-> PivotAt(k, s[k])]

InitStructural ==
    /\ candles = <<>>
    /\ depth = 5
    /\ \E no \in 0..MaxOlderPivots, nf \in {0, FillerLen}, nr \in 0..MaxRecentPivots :
        \E o \in [1..no -> ExtremePrices], r \in [1..nr -> StructPrices] :
            pivots = PivotsOf(o \o [k \in 1..nf |-> 10 + (k % 2)] \o r)
    /\ args = NoValue
    /\ pc = "input"
    /\ result = NoValue

CallFindStructuralWaves ==
    /\ pc = "input"
    /\ \E b \in BOOLEAN :
        /\ args' = [isBull |-> b]
        /\ result' = FindStructuralWaves(pivots, b)
    /\ pc' = "findStructuralWaves"
    /\ UNCHANGED <<candles, depth, pivots>>

NextStructural == CallFindStructuralWaves

SpecStructural == InitStructural /\ [][NextStructural]_vars

(***************************************************************************)
(* Claims about findStructuralWaves (checked under SpecStructural).        *)
(***************************************************************************)

\* recentStart = max(0, len - 20)
WindowStart(ps) == IF Len(ps) > 20 THEN Len(ps) - 20 ELSE 0

\* the price of the pivot at 0-based position i
PriceAt(ps, i) == ps[i + 1].price

\* C17: findStructuralWaves depends only on the most recent window of at most
\* 20 pivots: with recentStart = max(0, len(P) - 20), the anchors returned for
\* P are recentStart plus the anchors returned for the suffix P[recentStart..],
\* so pivots before recentStart never change which pivots are selected; with
\* fewer than 3 pivots all five anchors equal recentStart.
C17_WindowOnly ==
    pc = "findStructuralWaves" =>
        LET rs == WindowStart(pivots)
            suffix == SubSeq(pivots, rs + 1, Len(pivots))
            inner == FindStructuralWaves(suffix, args.isBull)
        IN  /\ result = Anchors(rs + inner.origin, rs + inner.w1, rs + inner.w2,
                                rs + inner.w3, rs + inner.w4)
            /\ Len(pivots) < 3 => result = Anchors(rs, rs, rs, rs, rs)

\* C17 witness: more than 20 pivots, the pivots before the window holding
\* both the highest and the lowest price of the whole sequence, and anchors
\* that are not all the same pivot.
C17_Witness ==
    /\ pc = "findStructuralWaves"
    /\ Len(pivots) = 22
    /\ pivots[1].price # pivots[2].price
    /\ \A k \in 3..Len(pivots) : pivots[k].price \in StructPrices
    /\ result.origin >= 2
    /\ result.w3 > result.origin

\* the first position of lo..hi (0-based, lo <= hi) whose price is the
\* highest of lo..hi
FirstArgMax(ps, lo, hi) ==
    CHOOSE i \in lo..hi :
        /\ \A j \in lo..hi : PriceAt(ps, j) <= PriceAt(ps, i)
        /\ \A j \in lo..(i - 1) : PriceAt(ps, j) < PriceAt(ps, i)

\* the first position of lo..hi (0-based, lo <= hi) whose price is the
\* lowest of lo..hi
FirstArgMin(ps, lo, hi) ==
    CHOOSE i \in lo..hi :
        /\ \A j \in lo..hi : PriceAt(ps, j) >= PriceAt(ps, i)
        /\ \A j \in lo..(i - 1) : PriceAt(ps, j) > PriceAt(ps, i)

\* C18: for at least 3 pivots, the extreme anchors of findStructuralWaves are:
\* bullish - W3 is the first index of the maximum price in [recentStart, len),
\* origin is the first index of the minimum price in [recentStart, W3], and W4
\* is the first index of the minimum price in (W3, len), or W3 when W3 is the
\* last pivot; bearish - origin is the first index of the maximum price in
\* [recentStart, len), W3 is the first index of the minimum price in
\* [origin, len), and W4 is the first index of the maximum price in (W3, len),
\* or W3 when W3 is the last pivot.
C18_ExtremeAnchors ==
    (pc = "findStructuralWaves" /\ Len(pivots) >= 3) =>
        LET rs == WindowStart(pivots)
            last == Len(pivots) - 1
        IN  IF args.isBull
            THEN /\ result.w3 = FirstArgMax(pivots, rs, last)
                 /\ result.origin = FirstArgMin(pivots, rs, result.w3)
                 /\ result.w4 = IF result.w3 = last THEN result.w3
                                ELSE FirstArgMin(pivots, result.w3 + 1, last)
            ELSE /\ result.origin = FirstArgMax(pivots, rs, last)
                 /\ result.w3 = FirstArgMin(pivots, result.origin, last)
                 /\ result.w4 = IF result.w3 = last THEN result.w3
                                ELSE FirstArgMax(pivots, result.w3 + 1, last)

\* C18 witness: a bullish call where the highest price of the window occurs
\* twice, the lowest price before W3 occurs twice, and W4 is neither W3 nor
\* the pivot right after it.
C18_Witness ==
    /\ pc = "findStructuralWaves"
    /\ args.isBull
    /\ Len(pivots) >= 3
    /\ \E j \in (result.w3 + 1)..(Len(pivots) - 1) :
            PriceAt(pivots, j) = PriceAt(pivots, result.w3)
    /\ \E j \in (result.origin + 1)..result.w3 :
            PriceAt(pivots, j) = PriceAt(pivots, result.origin)
    /\ result.w4 > result.w3 + 1

\* the highest price of positions lo..hi (lo <= hi)
MaxPriceOver(ps, lo, hi) ==
    PriceAt(ps, CHOOSE i \in lo..hi : \A j \in lo..hi : PriceAt(ps, j) <= PriceAt(ps, i))

\* the lowest price of positions lo..hi (lo <= hi)
MinPriceOver(ps, lo, hi) ==
    PriceAt(ps, CHOOSE i \in lo..hi : \A j \in lo..hi : PriceAt(ps, j) >= PriceAt(ps, i))

\* the positions of o+1 .. w3-1 where the forward scan stops: the price is
\* below 90% of the running maximum (bullish) or above 110% of the running
\* minimum (bearish)
StopsAt(ps, o, w3, isBull) ==
    {i \in (o + 1)..(w3 - 1) :
        IF isBull THEN PriceAt(ps, i) * 10 < MaxPriceOver(ps, o + 1, i) * 9
        ELSE PriceAt(ps, i) * 10 > MinPriceOver(ps, o + 1, i) * 11}

\* the last position the forward scan looks at
ScanEnd(ps, o, w3, isBull) ==
    LET stops == StopsAt(ps, o, w3, isBull)
    IN  IF stops = {} THEN w3 - 1
        ELSE CHOOSE i \in stops : \A j \in stops : i <= j

\* the positions where the forward scan sets W1: o+1, and every position up
\* to the end of the scan whose price strictly beats all the prices before it
UpdatesAt(ps, o, w3, isBull) ==
    {i \in (o + 1)..ScanEnd(ps, o, w3, isBull) :
        \A j \in (o + 1)..(i - 1) :
            IF isBull THEN PriceAt(ps, j) < PriceAt(ps, i)
            ELSE PriceAt(ps, j) > PriceAt(ps, i)}

\* C19: W1 in findStructuralWaves: if W3 <= origin+2 then W1 = min(origin+1,
\* W3); otherwise W1 is the result of a forward scan over origin+1 .. W3-1 that
\* starts with W1 = origin+1, sets W1 = i whenever price(i) strictly exceeds
\* the running maximum (bullish; is strictly below the running minimum for
\* bearish), and stops at the first i whose price is below 90% of the running
\* maximum (bullish; above 110% of the running minimum for bearish), keeping
\* the last update.
C19_Wave1Scan ==
    (pc = "findStructuralWaves" /\ Len(pivots) >= 3) =>
        IF result.w3 <= result.origin + 2
        THEN result.w1 = Min(result.origin + 1, result.w3)
        ELSE LET ups == UpdatesAt(pivots, result.origin, result.w3, args.isBull)
             IN  /\ result.w1 \in ups
                 /\ \A i \in ups : i <= result.w1

\* C19 witness: a bullish scan that moved W1 past origin+1, then stopped at a
\* price below 90% of the running maximum, with a higher price left between
\* the stop and W3.
C19_Witness ==
    /\ pc = "findStructuralWaves"
    /\ args.isBull
    /\ Len(pivots) >= 3
    /\ result.w3 > result.origin + 2
    /\ result.w1 > result.origin + 1
    /\ StopsAt(pivots, result.origin, result.w3, TRUE) # {}
    /\ \E j \in (ScanEnd(pivots, result.origin, result.w3, TRUE) + 1)..(result.w3 - 1) :
            PriceAt(pivots, j) > PriceAt(pivots, result.w1)

\* C20: W2 returned by findStructuralWaves equals the first index of the
\* minimum price within the closed range [W1, W3] in the bullish branch, and
\* of the maximum price within [W1, W3] in the bearish branch, for every pivot
\* sequence, although the code scans only [W1, W3) and only when W3 > W1 + 1.
C20_Wave2ClosedRange ==
    (pc = "findStructuralWaves" /\ Len(pivots) >= 3) =>
        /\ result.w1 <= result.w3
        /\ result.w2 = IF args.isBull
                       THEN FirstArgMin(pivots, result.w1, result.w3)
                       ELSE FirstArgMax(pivots, result.w1, result.w3)

\* C20 witness: a bullish call whose W2 scan ran (W3 > W1 + 1) and found a
\* lowest price after W1 that occurs twice before W3.
C20_Witness ==
    /\ pc = "findStructuralWaves"
    /\ args.isBull
    /\ Len(pivots) >= 3
    /\ result.w3 > result.w1 + 1
    /\ result.w2 > result.w1
    /\ \E j \in (result.w2 + 1)..(result.w3 - 1) :
            PriceAt(pivots, j) = PriceAt(pivots, result.w2)

\* the break test of the bullish W1 scan with 0.9 replaced by 1.1 and the
\* comparison swapped, on the original prices: p > localMin * 1.1
RECURSIVE MirrorScanW1(_, _, _, _, _)
MirrorScanW1(ps, i, w3I, localMin, w1I) ==
    IF i >= w3I THEN w1I
    ELSE LET p == PriceAt(ps, i)
             hit == p < localMin
             newMin == IF hit THEN p ELSE localMin
             newW1 == IF hit THEN i ELSE w1I
         IN  IF p * 10 > newMin * 11 THEN newW1
             ELSE MirrorScanW1(ps, i + 1, w3I, newMin, newW1)

\* steps 1-5 of the bullish branch with every max/min comparison swapped and
\* 0.9 replaced by 1.1: W3 = first window-wide minimum, origin = first maximum
\* of [recentStart, W3], W1 by the scan above, W2 = first maximum of [W1, W3),
\* W4 = first maximum after W3
MirrorOfBullish(ps) ==
    LET rs == WindowStart(ps)
        last == Len(ps) - 1
        w3I == FirstArgMin(ps, rs, last)
        oIdx == FirstArgMax(ps, rs, w3I)
        w1I == IF w3I > oIdx + 2
               THEN MirrorScanW1(ps, oIdx + 1, w3I, PriceAt(ps, oIdx + 1), oIdx + 1)
               ELSE Min(oIdx + 1, w3I)
        w2I == IF w3I > w1I + 1 THEN FirstArgMax(ps, w1I, w3I - 1) ELSE w1I
        w4I == IF w3I < last THEN FirstArgMax(ps, w3I + 1, last) ELSE w3I
    IN  Anchors(oIdx, w1I, w2I, w3I, w4I)

\* C21 as the code has it: the bearish anchors are those of the mirrored
\* bullish procedure exactly when the first window-wide maximum is not after
\* the first window-wide minimum; otherwise the bearish branch, which takes
\* origin = window-wide maximum and W3 = minimum of [origin, len), returns an
\* origin after the mirrored procedure's W3.
C21_MirrorWhenMaxFirst ==
    (pc = "findStructuralWaves" /\ ~args.isBull /\ Len(pivots) >= 3) =>
        LET rs == WindowStart(pivots)
            last == Len(pivots) - 1
            mirror == MirrorOfBullish(pivots)
        IN  IF FirstArgMax(pivots, rs, last) <= FirstArgMin(pivots, rs, last)
            THEN result = mirror
            ELSE result.origin > mirror.w3

\* C21 witness: a bearish call with the window's maximum before its minimum,
\* five distinct anchors, the same as the mirrored procedure's.
C21_Witness ==
    /\ pc = "findStructuralWaves"
    /\ ~args.isBull
    /\ Len(pivots) >= 3
    /\ result = MirrorOfBullish(pivots)
    /\ result.origin < result.w1
    /\ result.w1 < result.w2
    /\ result.w2 < result.w3
    /\ result.w3 < result.w4

\* C21: the bearish branch of findStructuralWaves is the mirror of the bullish
\* branch: for every pivot sequence, the anchors returned with isBull = false
\* equal those of the bullish steps 1-5 with every max/min comparison swapped
\* and the 0.9 break threshold replaced by 1.1.
C21_Original ==
    (pc = "findStructuralWaves" /\ ~args.isBull /\ Len(pivots) >= 3) =>
        result = MirrorOfBullish(pivots)

(***************************************************************************)
(* Further claims about ewConfidence (checked under SpecPivotOps).         *)
(***************************************************************************)

\* the absolute leg k (1..4) between the last five pivots of ps
LastLeg(ps, k) ==
    LET a == ps[Len(ps) - 5 + k].price
        b == ps[Len(ps) - 4 + k].price
    IN  IF a >= b THEN a - b ELSE b - a

\* num / den lies in [lo, hi] thousandths; false when den = 0
Within(num, den, lo, hi) ==
    /\ den # 0
    /\ 1000 * num >= lo * den
    /\ 1000 * num <= hi * den

\* the four contributions of C22
Part1(l1, l3, l4) == IF l3 >= l1 /\ l3 >= l4 THEN 30 ELSE 0
Part2(l1, l2) ==
    IF Within(l2, l1, 382, 786) THEN 25 ELSE IF Within(l2, l1, 236, 886) THEN 12 ELSE 0
Part3(l1, l3) ==
    IF Within(l3, l1, 1272, 2618) THEN 25 ELSE IF Within(l3, l1, 1000, 3000) THEN 12 ELSE 0
Part4(l3, l4) ==
    IF Within(l4, l3, 236, 500) THEN 20 ELSE IF Within(l4, l3, 146, 618) THEN 10 ELSE 0

\* C22: for at least 5 pivots, ewConfidence depends only on the last 5 pivots
\* and equals the sum of four contributions computed from the absolute legs
\* l1..l4 between them: 30 if l3 >= l1 and l3 >= l4; 25 if l2/l1 is in
\* [0.382, 0.786], else 12 if in [0.236, 0.886]; 25 if l3/l1 is in
\* [1.272, 2.618], else 12 if in [1.0, 3.0]; 20 if l4/l3 is in [0.236, 0.5],
\* else 10 if in [0.146, 0.618]; a ratio rule contributes 0 whenever its
\* divisor leg is zero.
C22_ConfidenceSum ==
    (pc = "ewConfidence" /\ Len(pivots) >= 5) =>
        LET l1 == LastLeg(pivots, 1)
            l2 == LastLeg(pivots, 2)
            l3 == LastLeg(pivots, 3)
            l4 == LastLeg(pivots, 4)
        IN  result = Part1(l1, l3, l4) + Part2(l1, l2) + Part3(l1, l3) + Part4(l3, l4)

\* C22 witness: more than 5 pivots, with legs among the first five that
\* would score differently, a zero first leg with a non-zero second and
\* third leg, and a Wave 4 retracement of exactly 0.5.
C22_Witness ==
    /\ pc = "ewConfidence"
    /\ Len(pivots) > 5
    /\ pivots[1].price # pivots[2].price
    /\ LastLeg(pivots, 1) = 0
    /\ LastLeg(pivots, 2) > 0
    /\ LastLeg(pivots, 3) = 2 * LastLeg(pivots, 4)
    /\ LastLeg(pivots, 4) > 0
    /\ result = 50

(***************************************************************************)
(* Further claims about detectPivots (checked under SpecPivots).           *)
(***************************************************************************)

\* the bars detectPivots tests: those with depth bars on both sides
TestedBars(cs, d) == {i \in 0..(Len(cs) - 1) : i >= d /\ i < Len(cs) - d}

\* C23: in detectPivots a single bar may be confirmed as neither a swing high
\* nor a swing low, but never as both: for every candle sequence with
\* high >= low on each bar, no index is pushed to both the highs list and the
\* lows list, so no two output pivots share the same index.
C23_NeverBoth ==
    pc = "detectPivots" =>
        /\ \A i \in TestedBars(candles, depth) :
                ~(IsHigh(candles, i, depth) /\ IsLow(candles, i, depth))
        /\ \A k \in 1..Len(pivots), m \in 1..Len(pivots) :
                k # m => pivots[k].index # pivots[m].index

\* C23, what the code does: a bar whose high is above and whose low is below
\* those of its depth neighbours on each side is pushed to both lists, and
\* the returned pivots hold it twice, as a high followed by a low.
C23_Witness ==
    /\ pc = "detectPivots"
    /\ \A k \in 1..Len(candles) : candles[k].high >= candles[k].low
    /\ \E k \in 1..(Len(pivots) - 1) :
        /\ pivots[k].index = pivots[k + 1].index
        /\ pivots[k].type = "high"
        /\ pivots[k + 1].type = "low"
        /\ IsHigh(candles, pivots[k].index, depth)
        /\ IsLow(candles, pivots[k].index, depth)

(***************************************************************************)
(* Claims about the shape of a projected cycle (checked under SpecProject  *)
(* and SpecProjectLong).                                                   *)
(***************************************************************************)

\* x lies between a and b, inclusive, whichever of a and b is larger
Between(x, a, b) == (a <= x /\ x <= b) \/ (b <= x /\ x <= a)

\* the relative offsets of the cycle that step s of the call falls in
OffsetsOfStep(a, s) ==
    CycleTargets(Legs(a.w1Len), ActiveDir((a.simI + s) \div 9, a.isBull))

\* the entry of the result with step s; NoValue when the step pushed nothing
EntryOfStep(r, s) ==
    IF \E i \in 1..Len(r) : r[i].step = s
    THEN r[CHOOSE i \in 1..Len(r) : r[i].step = s]
    ELSE NoValue

\* C24: within every cycle of projectWaves and for every w1Len >= 0 and either
\* direction, the intrawave sub-points lie between their surrounding major
\* points: the relative offsets cw2a and cw2b lie between cw1 and cw2
\* (inclusive), and cw4a and cw4b lie between cw3 and cw4 (inclusive).
C24_SubPointsBetween ==
    pc = "projectWaves" =>
        \A s \in 1..args.numSteps :
            LET cw == OffsetsOfStep(args, s)
            IN  /\ Between(cw.cw2a, cw.cw1, cw.cw2)
                /\ Between(cw.cw2b, cw.cw1, cw.cw2)
                /\ Between(cw.cw4a, cw.cw3, cw.cw4)
                /\ Between(cw.cw4b, cw.cw3, cw.cw4)

\* C24 witness: a bearish call with w1Len > 0 that returned, in one motive
\* cycle, WAVE 1, Wave 2a, Wave 2b and WAVE 2 with the two sub-point targets
\* strictly between the two major targets, and went on into a corrective
\* cycle.
C24_Witness ==
    /\ pc = "projectWaves"
    /\ ~args.isBull
    /\ args.w1Len.num > 0
    /\ args.simI + args.numSteps >= 18
    /\ \E s \in 1..(args.numSteps - 3) :
        LET e1 == EntryOfStep(result, s)
            e2a == EntryOfStep(result, s + 1)
            e2b == EntryOfStep(result, s + 2)
            e2 == EntryOfStep(result, s + 3)
        IN  /\ e1 # NoValue /\ e2a # NoValue /\ e2b # NoValue /\ e2 # NoValue
            /\ e1.label = "1" /\ e2a.label = "2a" /\ e2b.label = "2b" /\ e2.label = "2"
            /\ e1.target < e2a.target /\ e2a.target < e2.target
            /\ e1.target < e2b.target /\ e2b.target < e2.target

(***************************************************************************)
(* Claims about the order of the anchors (checked under SpecStructural).   *)
(***************************************************************************)

\* C25: for every non-empty pivot sequence and either trend flag, the anchors
\* returned by findStructuralWaves are valid pivot indices and are
\* monotonically ordered: recentStart <= origin <= w1 <= w2 <= w3 <= w4 <=
\* len - 1, so origin is always the smallest anchor index, and
\* determineCurrentWave returns 8 exactly when w4 < len - 1.
C25_AnchorsOrdered ==
    (pc = "findStructuralWaves" /\ Len(pivots) >= 1) =>
        /\ WindowStart(pivots) <= result.origin
        /\ result.origin <= result.w1
        /\ result.w1 <= result.w2
        /\ result.w2 <= result.w3
        /\ result.w3 <= result.w4
        /\ result.w4 <= Len(pivots) - 1
        /\ DetermineCurrentWave(pivots, result).simI = 8 <=> result.w4 < Len(pivots) - 1

\* C25 witness: more than 20 pivots, five distinct anchors inside the window
\* and pivots left after w4, so that the current wave is 8.
C25_Witness ==
    /\ pc = "findStructuralWaves"
    /\ Len(pivots) > 20
    /\ WindowStart(pivots) < result.origin
    /\ result.origin < result.w1
    /\ result.w1 < result.w2
    /\ result.w2 < result.w3
    /\ result.w3 < result.w4
    /\ result.w4 < Len(pivots) - 1
    /\ DetermineCurrentWave(pivots, result).simI = 8

(***************************************************************************)
(* A caller of analyzeElliottWaves with short, dense series: swings of     *)
(* three bars up by 4 or down by 3 a bar, and single bars up by 1, from a  *)
(* first bar around StartPrice; a series starts with a three-bar swing.    *)
(* Three bars up and three bars down put a swing high and a swing low      *)
(* every six bars, the closest that depth 5 allows.                        *)
(***************************************************************************)
MaxDenseBars == 23
MaxDenseSwings == 9

\* <<number of bars, move per bar>>
DenseSwings == {<<3, 4>>, <<3, -3>>, <<1, 1>>}

InitAnalyzeDense ==
    /\ candles = <<>>
    /\ depth = 5
    /\ pivots = <<>>
    /\ args = [swings |-> 0]
    /\ pc = "input"
    /\ result = NoValue

AddDenseSwing ==
    /\ pc = "input"
    /\ args.swings < MaxDenseSwings
    /\ \E sw \in DenseSwings :
        LET next == Extend(candles, sw[1], sw[2]) IN
        /\ candles = <<>> => sw[1] = 3
        /\ Len(next) <= MaxDenseBars
        /\ next[Len(next)].low >= 1
        /\ next[Len(next)].high <= MaxPrice
        /\ candles' = next
    /\ args' = [swings |-> args.swings + 1]
    /\ UNCHANGED <<depth, pivots, pc, result>>

NextAnalyzeDense == AddDenseSwing \/ CallAnalyzeElliottWaves

SpecAnalyzeDense == InitAnalyzeDense /\ [][NextAnalyzeDense]_vars

\* the 1-based positions of the candidates of type t in all
OfType(all, t) == {k \in 1..Len(all) : all[k].type = t}

\* any two candidates of the same type are more than d bars apart
FarApart(all, d) ==
    \A t \in {"high", "low"} :
        \A k \in OfType(all, t), m \in OfType(all, t) :
            k < m => all[m].index - all[k].index > d

\* the depths the first two parts of C26 are checked for
Depths == 1..5

\* C26: any two confirmed swings of the same type found by detectPivots are
\* more than depth bars apart in index, hence a candle sequence shorter than
\* 4 * depth + 3 bars can never yield 5 pivots; with depth = 5
\* analyzeElliottWaves returns the 'not enough swing points' error for every
\* input of 20, 21 or 22 candles.
C26_TooShortForFivePivots ==
    pc = "analyzeElliottWaves" =>
        /\ \A d \in Depths :
            /\ FarApart(AllCandidates(candles, d), d)
            /\ Len(candles) < 4 * d + 3 => Len(DetectPivots(candles, d)) < 5
        /\ Len(candles) \in 20..22 => result = PivotsError

\* C26 witness: 22 candles that hold four pivots at depth 5 (and five at depth
\* 4), for which the call returned the 'not enough swing points' error.
C26_Witness ==
    /\ pc = "analyzeElliottWaves"
    /\ Len(candles) = 22
    /\ Len(DetectPivots(candles, 5)) = 4
    /\ Len(DetectPivots(candles, 4)) >= 5
    /\ result = PivotsError

(***************************************************************************)
(* Claims about repeated cycles (checked under SpecProjectLong).           *)
(***************************************************************************)

\* the unclamped target of step s of the call, as a numerator over Den(w1Len)
UnclampedTarget(a, s) ==
    LET eff == a.simI + s
        cyc == eff \div 9
        row == TableRow(cyc, eff % 9, CycleTargets(Legs(a.w1Len), ActiveDir(cyc, a.isBull)))
    IN  a.originPrice * Den(a.w1Len)
            + PriorCyclesMove(cyc, Cycle0Net(Legs(a.w1Len), a.isBull)) + row.relTp

\* the unclamped end point of cycle c: originPrice + priorCyclesMove(c) + cw5(c)
CycleEnd(a, c) ==
    a.originPrice * Den(a.w1Len)
        + PriorCyclesMove(c, Cycle0Net(Legs(a.w1Len), a.isBull))
        + CycleTargets(Legs(a.w1Len), ActiveDir(c, a.isBull)).cw5

\* the base of cycle c: originPrice + priorCyclesMove(c)
CycleBase(a, c) ==
    a.originPrice * Den(a.w1Len) + PriorCyclesMove(c, Cycle0Net(Legs(a.w1Len), a.isBull))

\* the returned value of an unclamped target: clamped, then rounded to cents
Returned(x, a) == RoundCents(ClampTarget(x, Den(a.w1Len)), Den(a.w1Len))

LastFiveFlat(ps) ==
    \A k \in (Len(ps) - 4)..Len(ps) : ps[k].price = ps[Len(ps)].price

\* C28: in ewConfidence the rules are not independent: whenever the Wave 3
\* extension rule and the Wave 4 retracement rule both contribute a positive
\* amount, the Wave-3-not-shortest rule contributes 30, so any score in which
\* rules 3 and 4 both score is at least 52; and a sequence whose last 5 pivots
\* all have the same price scores exactly 30.
C28_RulesDependent ==
    (pc = "ewConfidence" /\ Len(pivots) >= 5) =>
        LET l1 == LastLeg(pivots, 1)
            l2 == LastLeg(pivots, 2)
            l3 == LastLeg(pivots, 3)
            l4 == LastLeg(pivots, 4)
        IN  /\ (Part3(l1, l3) > 0 /\ Part4(l3, l4) > 0) =>
                    /\ result - Part2(l1, l2) - Part3(l1, l3) - Part4(l3, l4) = 30
                    /\ result >= 52
            /\ LastFiveFlat(pivots) => result = 30

\* C28 witness: Wave 3 as long as Wave 1 (extension 1.0), Wave 4 a fifth of
\* Wave 3, no Wave 2 at all: rules 3 and 4 score their lower amounts and the
\* score is exactly 52.
C28_Witness ==
    /\ pc = "ewConfidence"
    /\ Len(pivots) >= 5
    /\ LastLeg(pivots, 1) = LastLeg(pivots, 3)
    /\ LastLeg(pivots, 2) = 0
    /\ LastLeg(pivots, 3) = 5 * LastLeg(pivots, 4)
    /\ LastLeg(pivots, 4) > 0
    /\ result = 52

(***************************************************************************)
(* Claims about simulateTrades (checked under SpecBacktest).  The bars of  *)
(* the model start at the first signal index, so bar k of candles has the  *)
(* index FirstBar + k - 1 and the signal Signals[k].                       *)
(***************************************************************************)
FirstBar == FirstSignalIdx(args.strategyId)
LastBar == FirstBar + Len(candles) - 1
Signals == ExecuteStrategy(candles, args.strategyId)
SignalAt(i) == Signals[i - FirstBar + 1]

\* C29: in simulateTrades at most one position is open at any time: a buy
\* signal while a position is open and a sell signal while flat have no
\* effect, no entry occurs on the bar of an exit, every trade's entry bar is
\* strictly after the previous trade's exit bar, and when the function returns
\* no position remains open (a position still open at the last bar is closed
\* at the last close with reason 'End of Period'), with exactly one
\* equity-curve point per bar from the first signal index to the last bar.
C29_OnePosition ==
    pc = "runBacktest" =>
        LET trades == result.trades
            n == Len(trades)
        IN  \* a trade starts on a buy signal and ends on the first sell signal
            \* after it, or at the last bar
            /\ \A k \in 1..n :
                LET t == trades[k] IN
                /\ t.entryDate \in FirstBar..LastBar
                /\ SignalAt(t.entryDate).action = "buy"
                /\ \A i \in (t.entryDate + 1)..(t.exitDate - 1) : SignalAt(i).action # "sell"
                /\ \/ /\ t.exitDate \in (t.entryDate + 1)..LastBar
                      /\ SignalAt(t.exitDate).action = "sell"
                      /\ t.exitReason = SignalAt(t.exitDate).reason
                   \/ /\ t.exitDate = LastBar
                      /\ t.exitReason = "End of Period"
                      /\ k = n
                /\ t.holdDays = t.exitDate - t.entryDate
            \* trades do not overlap, and none starts on the bar of an exit
            /\ \A k \in 1..(n - 1) : trades[k + 1].entryDate > trades[k].exitDate
            \* no position is left open or lost: every buy signal lies inside
            \* a trade (an initial capital of 2 or more buys at least one share
            \* at every buy of the explored series)
            /\ args.initialCapital >= 2 =>
                \A i \in FirstBar..LastBar :
                    SignalAt(i).action = "buy" =>
                        \E k \in 1..n : trades[k].entryDate <= i /\ i <= trades[k].exitDate
            \* one equity-curve point per bar
            /\ Len(result.equityCurve) = Len(candles)
            /\ \A k \in 1..Len(candles) : result.equityCurve[k].time = FirstBar + k - 1

\* C29 witness: two trades; buy signals came while the first position was
\* open, sell signals while flat after its exit, and the second position was
\* still open at the last bar and closed with 'End of Period'.
C29_Witness ==
    /\ pc = "runBacktest"
    /\ Len(result.trades) = 2
    /\ LET t1 == result.trades[1]
           t2 == result.trades[2]
       IN  /\ \E i \in (t1.entryDate + 1)..(t1.exitDate - 1) : SignalAt(i).action = "buy"
           /\ \E i \in (t1.exitDate + 1)..(t2.entryDate - 1) : SignalAt(i).action = "sell"
           /\ t2.exitReason = "End of Period"
           /\ t2.exitDate > t2.entryDate

\* the state of simulateTrades before its loop
StartState(initialCapital) ==
    [capital |-> initialCapital, position |-> NoValue,
     peakCapital |-> initialCapital, maxDrawdown |-> [num |-> 0, den |-> 1],
     trades |-> <<>>, equityCurve |-> <<>>]

\* the state of simulateTrades after the iteration of bar i
StateAfterBar(i) ==
    LET n == i - FirstBar + 1
    IN  SimulateFrom(StartState(args.initialCapital), SubSeq(candles, 1, n),
                     SubSeq(Signals, 1, n), FirstBar, 1)

\* the sum of the pnl (in cents) of the first n trades
RECURSIVE PnlSum(_, _)
PnlSum(trades, n) == IF n = 0 THEN 0 ELSE PnlSum(trades, n - 1) + trades[n].pnl

\* C30: in simulateTrades with initialCapital > 0 and strictly positive
\* closes, positions are never leveraged (shares x entryPrice <= capital at
\* entry), so realised capital and mark-to-market equity never fall below 0 at
\* any bar, maxDrawdown stays within [0, 100], the final capital equals
\* initialCapital plus the sum of the pnl of all trades, and winners + losers
\* = totalTrades.
C30_NoLeverage ==
    (pc = "runBacktest" /\ args.initialCapital > 0) =>
        LET trades == result.trades
            n == Len(trades)
            cents == args.initialCapital * 100
        IN  /\ \A k \in 1..n :
                LET st == StateAfterBar(trades[k].entryDate) IN
                /\ st.position # NoValue
                /\ st.position.shares >= 1
                /\ st.position.entryPrice * 100 = trades[k].entryPrice
                /\ st.capital * 100 = cents + PnlSum(trades, k - 1)
                /\ st.position.shares * st.position.entryPrice <= st.capital
                /\ trades[k].pnl = st.position.shares * (trades[k].exitPrice - trades[k].entryPrice)
            /\ \A k \in 0..n : cents + PnlSum(trades, k) >= 0
            /\ \A k \in 1..Len(result.equityCurve) : result.equityCurve[k].equity >= 0
            /\ result.stats.maxDrawdown.den > 0
            /\ result.stats.maxDrawdown.num >= 0
            /\ result.stats.maxDrawdown.num <= 100 * result.stats.maxDrawdown.den
            /\ result.stats.finalCapital = cents + PnlSum(trades, n)
            /\ result.stats.winners + result.stats.losers = result.stats.totalTrades
            /\ result.stats.totalTrades = n

\* C30 witness: a first trade closed at a loss, then an entry with the
\* reduced capital that buys fewer shares than the capital would pay for
\* exactly (a remainder is left), and a drawdown above zero.
C30_Witness ==
    /\ pc = "runBacktest"
    /\ args.initialCapital > 0
    /\ Len(result.trades) >= 2
    /\ result.trades[1].pnl < 0
    /\ LET st == StateAfterBar(result.trades[2].entryDate)
       IN  /\ st.position # NoValue
           /\ st.position.shares * st.position.entryPrice < st.capital
           /\ st.capital < args.initialCapital
    /\ result.stats.maxDrawdown.num > 0
    /\ result.stats.losers >= 1

=============================================================================
